---------------------------- MODULE Spec2Model ----------------------------
(***************************************************************************)
(* Model of the manga-translate pipeline core:                             *)
(*   - translate_utils.translate_batch / translate_openai_batch /          *)
(*     translate_libre, and the copy of the same loop in                   *)
(*     sandbox_worker.main / sandbox_worker.translate_openai_batch;         *)
(*   - ocr_utils.sort_reading_order and ocr_utils.merge_nearby_boxes.      *)
(*                                                                         *)
(* Python strings are sequences of tokens (a token is a run of characters  *)
(* that the code never looks inside), so prefix tests, strip() and         *)
(* f-string concatenation are computed, not assumed.  Durations are in     *)
(* tenths of a second.  Coordinates are integers; a centre (x1+x2)/2.0 is  *)
(* kept doubled (x1+x2) so that all comparisons are exact.                 *)
(***************************************************************************)
EXTENDS Integers, Sequences, FiniteSets, Bags, TLC

VARIABLES
    \* ---- translation ----
    impl,             \* "app": translate_utils.translate_batch; "worker": sandbox_worker.main
    given,            \* the items list as passed by the caller (never modified)
    items,            \* the items list (dicts are updated in place)
    backend,          \* backend name, a token sequence
    api_key,          \* openai_key, a token sequence ("" = <<>>)
    batch_size,
    pc,               \* position of the control flow
    texts,            \* texts (translate_batch line 248 / main line 448)
    bi,               \* number of the current batch, 1-based position in range(0, len, batch_size)
    chunk,            \* texts[i : i + batch_size] of the current batch
    attempt,          \* loop variable of "for attempt in range(max_retries)"
    last_err,         \* last_err of translate_openai_batch
    nreq,             \* primary requests sent by the current call of translate_openai_batch
    last_r,           \* the primary response that call handled last
    sleep_s,          \* duration of the sleep in progress (0: not sleeping)
    resp,             \* translations list of the accepted primary response of the current batch
    chunk_results,    \* value returned by translate_openai_batch for the current batch
    k,                \* position in the per-item loop (zip of chunk/chunk_results, or items)
    sec,              \* secondary requests of the current batch (or of the Libre loop), by position
    translated_texts, \* translated_texts / all_translations
    \* ---- OCR post-processing ----
    regions,          \* input list of sort_reading_order / merge_nearby_boxes
    threshold,        \* merge threshold
    opc,              \* which functions have been applied
    ordered,          \* sort_reading_order(regions)
    reordered,        \* sort_reading_order(ordered)
    merged,           \* merge_nearby_boxes(regions, threshold)
    \* ---- OCR language handling (app.py) ----
    primary,          \* argument of safe_easyocr_lang_list
    langs,            \* the list it returns
    lpc,              \* "idle", "call" or "done"
    cpos,               \* position in candidates of run_ocr_auto's loop
    best,             \* best = {"lang", "raw", "score"}
    calls,            \* the OCR invocations of run_ocr_auto so far, in order
    apc,              \* position of run_ocr_auto: "idle", "probe", "return", "done"
    auto_out,           \* the pair returned by run_ocr_auto
    \* ---- the pipeline (process_local / main of the worker) ----
    raw_results,      \* the detections OCR returned
    min_conf,         \* confidence threshold, in hundredths
    merge_lines,      \* whether merging was requested
    ppc,              \* the stage the pipeline is about to run
    pitems,           \* the local variable items of the pipeline
    stages,           \* the stages run so far, in order
    \* ---- daytona_runner ----
    _daytona_client,  \* whether the client is cached
    _sandbox,         \* the sandbox held (its number), 0 for None
    _sandbox_ready,   \* the dependencies flag
    recent,           \* the last two calls with their remote operations, oldest first
    ncalls,           \* number of calls so far
    next_id,          \* number of sandboxes created so far
    installed,        \* sandboxes in which the installation went through
    made              \* sandboxes created since the last reset

tvars == <<impl, given, items, backend, api_key, batch_size, pc, texts, bi, chunk,
           attempt, last_err, nreq, last_r, sleep_s, resp, chunk_results, k, sec,
           translated_texts>>
ovars == <<regions, threshold, opc, ordered, reordered, merged>>
rvars == <<primary, langs, lpc, cpos, best, calls, apc, auto_out>>
pvars == <<raw_results, min_conf, merge_lines, ppc, pitems, stages>>
dvars == <<_daytona_client, _sandbox, _sandbox_ready, recent, ncalls, next_id,
           installed, made>>
vars == <<tvars, ovars, rvars, pvars, dvars>>

-----------------------------------------------------------------------------
(* Bounds of the model *)
MaxItems == 3      \* longest items list handed to the translation
MaxBatch == 3      \* largest batch_size tried
MaxRegions == 3    \* longest region list handed to sort / merge
MaxCalls == 4        \* calls of daytona_runner functions in one run

Min(a, b) == IF a <= b THEN a ELSE b
Max(a, b) == IF a >= b THEN a ELSE b
Abs(a) == IF a < 0 THEN -a ELSE a

-----------------------------------------------------------------------------
(* Python values *)

\* Python's None, kept in the type of strings so that it can sit in a list of strings
None == <<"<None>">>
EmptyStr == <<>>
SP == " "
\* the literal prefix tested by translate_batch line 269
FailPrefix == "[OpenAI failed"

\* s.startswith(prefix), prefix being one token
StartsWith(s, prefix) == s # None /\ Len(s) > 0 /\ s[1] = prefix

\* (x or "")
OrEmpty(x) == IF x = None \/ x = EmptyStr THEN EmptyStr ELSE x

RECURSIVE LStrip(_)
LStrip(s) == IF s # <<>> /\ Head(s) = SP THEN LStrip(Tail(s)) ELSE s
RECURSIVE RStrip(_)
RStrip(s) == IF s # <<>> /\ s[Len(s)] = SP THEN RStrip(SubSeq(s, 1, Len(s) - 1)) ELSE s
\* str.strip()
Strip(s) == RStrip(LStrip(s))

\* backend.startswith("OpenAI")
IsOpenAI(b) == StartsWith(b, "OpenAI")

-----------------------------------------------------------------------------
(* translate_libre: the secondary, single-text service *)

\* what the LibreTranslate endpoint can do with one request; status 0 = requests.post
\* raised; a translatedText entry is a string
LibreResponses ==
    {[status |-> 0,   body |-> "none",    translatedText |-> None],
     [status |-> 503, body |-> "none",    translatedText |-> None],
     [status |-> 200, body |-> "notjson", translatedText |-> None],
     [status |-> 200, body |-> "nokey",   translatedText |-> None],
     [status |-> 200, body |-> "dict",    translatedText |-> <<"L">>]}

\* the response carries a translatedText entry
LibreAnswered(r) == r.status = 200 /\ r.body = "dict"

translate_libre(text, r) ==
    IF r.status = 0 THEN text                      \* except Exception: return text
    ELSE IF r.status = 200
         THEN IF r.body = "dict" THEN r.translatedText   \* .get("translatedText", text)
              ELSE IF r.body = "nokey" THEN text
              ELSE text                            \* r.json() raised
         ELSE text                                 \* not r.ok

-----------------------------------------------------------------------------
(* translate_openai_batch: one request per batch, retried *)

\* default of the max_retries parameter; no caller passes another value
max_retries == 5

\* header values of a 429 response: absent, numeric, numeric above the cap, a date,
\* and a digit character that int() rejects (str.isdigit() accepts it)
NoHeader == "<absent>"
RetryAfterValues == {NoHeader, "2", "60", "Wed, 21 Oct", "SUPERSCRIPT TWO"}
IsDigitStr(h) == h \in {"2", "60", "SUPERSCRIPT TWO"}
IntParses(h) == h \in {"2", "60"}
IntOf(h) == IF h = "2" THEN 2 ELSE 60

\* elements of a "translations" array: JSON null, a string, a string that happens
\* to begin with the failure prefix
PrimaryAnswers == {None, <<"x">>, <<FailPrefix, "x">>}

\* "translations" arrays for a batch of n segments: the arrays of the right length with
\* at most one entry (among the first MaxItems) that is not an ordinary string, one too
\* short and one too long
TranslationLists(n) ==
    LET plain == [i \in 1..n |-> <<"x">>]
        right == {plain} \cup {[plain EXCEPT ![p] = a] :
                                 p \in 1..Min(n, MaxItems), a \in PrimaryAnswers}
        long  == {[i \in 1..(n + 1) |-> <<"x">>]}
        short == IF n > 0 THEN {[i \in 1..(n - 1) |-> <<"x">>]} ELSE {}
    IN right \cup long \cup short

\* the message content of a 2xx response, as text: optional markdown fence (three
\* backquotes, token "<fence>") around the payload; "<nl>" is a line break
Fences == {"none", "<fence>", "fence+json"}
Content(fence, payload) ==
    IF fence = "none" THEN <<payload>>
    ELSE IF fence = "<fence>" THEN <<"<fence>", "<nl>", payload, "<nl>", "<fence>">>
    ELSE <<"<fence>", "json", "<nl>", payload, "<nl>", "<fence>">>

RECURSIVE LStripTok(_, _)
LStripTok(s, toks) == IF s # <<>> /\ Head(s) \in toks THEN LStripTok(Tail(s), toks) ELSE s
RECURSIVE RStripTok(_, _)
RStripTok(s, toks) ==
    IF s # <<>> /\ s[Len(s)] \in toks THEN RStripTok(SubSeq(s, 1, Len(s) - 1), toks) ELSE s

\* lines 189-195: .strip(), then the fence removal
Unfence(content) ==
    LET c0 == RStripTok(LStripTok(content, {SP, "<nl>"}), {SP, "<nl>"})
        c1 == IF StartsWith(c0, "<fence>") THEN RStripTok(LStripTok(c0, {"<fence>"}), {"<fence>"}) ELSE c0
        c2 == IF StartsWith(c0, "<fence>") /\ StartsWith(c1, "json")
              THEN RStripTok(LStripTok(Tail(c1), {SP, "<nl>"}), {SP, "<nl>"})
              ELSE c1
    IN c2

\* json.loads accepts the text: one JSON payload with optional surrounding whitespace
JsonLoads(c) == RStripTok(LStripTok(c, {SP, "<nl>"}), {SP, "<nl>"}) = <<"JSON">>

\* what the primary endpoint can do with one request for n segments; status 0 = the
\* transport raised; 304 stands for the answers below 400 that are not 2xx (a 3xx answer
\* without a Location header is handed to the caller as it is)
PrimaryResponses(n) ==
    {[status |-> 0, quota |-> FALSE, retry_after |-> NoHeader, body |-> "none",
      fence |-> "none", translations |-> <<>>]}
    \cup {[status |-> 429, quota |-> FALSE, retry_after |-> h, body |-> "none",
           fence |-> "none", translations |-> <<>>] : h \in RetryAfterValues}
    \cup {[status |-> 429, quota |-> TRUE, retry_after |-> h, body |-> "none",
           fence |-> "none", translations |-> <<>>] : h \in {NoHeader, "2"}}
    \cup {[status |-> 500, quota |-> FALSE, retry_after |-> NoHeader, body |-> "none",
           fence |-> "none", translations |-> <<>>]}
    \cup {[status |-> 304, quota |-> FALSE, retry_after |-> NoHeader, body |-> "notjson",
           fence |-> "none", translations |-> <<>>]}
    \cup {[status |-> 200, quota |-> FALSE, retry_after |-> NoHeader, body |-> b,
           fence |-> "none", translations |-> <<>>] :
             b \in {"nochoices", "notjson", "nolist"}}
    \cup {[status |-> 200, quota |-> FALSE, retry_after |-> NoHeader, body |-> "list",
           fence |-> "none", translations |-> t] : t \in TranslationLists(n)}
    \cup {[status |-> 200, quota |-> FALSE, retry_after |-> NoHeader, body |-> "list",
           fence |-> f, translations |-> [i \in 1..n |-> <<"x">>]] :
             f \in Fences \ {"none"}}

\* values of random.random() * 1.5 (app) and random.random() (worker), in tenths
Jitters(im) == IF im = "app" THEN {0, 14} ELSE {0, 9}

\* what last_r keeps of a response
Seen(r) == [status |-> r.status, quota |-> r.quota, retry_after |-> r.retry_after]
\* no response handled yet
NoResponse == [status |-> -1, quota |-> FALSE, retry_after |-> NoHeader]

\* the draws of random.random() an attempt can use: only the backoff branch draws
JittersFor(im, r) ==
    IF r.status = 429 /\ ~(r.retry_after # NoHeader /\ IsDigitStr(r.retry_after))
    THEN Jitters(im) ELSE {0}

\* (mutant) the two copies' caps exchanged
MaxWaitSwapped(im) == IF im = "app" THEN 300 ELSE 450

\* min(45, .) in translate_utils, min(30, .) in sandbox_worker, in tenths
MaxWait(im) == IF im = "app" THEN 450 ELSE 300

\* (mutant) the translations are paired with the segments from the wrong end
ReturnValueReversed(translations, txts) ==
    [i \in 1..Len(translations) |->
        IF translations[Len(translations) + 1 - i] # None
        THEN translations[Len(translations) + 1 - i] ELSE txts[i]]

\* line 206: [str(t) if t is not None else texts[i] ...]
ReturnValue(translations, txts) ==
    [i \in 1..Len(translations) |->
        IF translations[i] # None THEN translations[i] ELSE txts[i]]

\* (mutant) the tag never carries the error
FailTagBare(err) == <<FailPrefix, "]">>

\* lines 219-221
FailTag(err) ==
    IF err # None /\ err # EmptyStr
    THEN <<FailPrefix, ": ">> \o err \o <<"]">>
    ELSE <<FailPrefix, "]">>
FailureFallback(err, txts) == [i \in 1..Len(txts) |-> FailTag(err) \o <<SP>> \o txts[i]]

\* (mutant) the missing key is reported with the failure tag
MissingKeyAsFailure(txts) ==
    [i \in 1..Len(txts) |-> <<FailPrefix, ": ", "Missing OpenAI key", "]", SP>> \o txts[i]]

\* line 123
MissingKey(txts) == [i \in 1..Len(txts) |-> <<"[Missing OpenAI key]", SP>> \o txts[i]]

\* the two except clauses (one in the worker): last_err, then a short sleep
OnException(im, att, cls, msg) ==
    [next     |-> "retry",
     last_err |-> IF im = "worker" THEN <<msg>>
                  ELSE IF cls = "JSONDecodeError" THEN <<"JSON parse error: ", msg>>
                  ELSE <<"Unexpected error: ", msg>>,
     sleep_s  |-> Min(100, 15 + 10 * att),
     value    |-> <<>>]

\* line 178 / worker line 322
RateLimitErr(im, att, s) ==
    IF im = "app"
    THEN <<"429 rate limit (attempt ", ToString(att + 1), "/", ToString(max_retries),
           "), waiting ", ToString(s), "/10 s">>
    ELSE <<"429 rate limit (attempt ", ToString(att + 1), "/", ToString(max_retries), ")">>

\* lines 161-181 / worker lines 313-325: a 429 response
OnRateLimit(im, att, r, j) ==
    IF im = "app" /\ r.quota
    THEN [next |-> "break", last_err |-> <<"insufficient_quota">>, sleep_s |-> 0,
          value |-> <<>>]
    ELSE IF r.retry_after # NoHeader /\ IsDigitStr(r.retry_after) /\ ~IntParses(r.retry_after)
    THEN OnException(im, att, "ValueError", "invalid literal for int()")
    ELSE LET raw == IF r.retry_after # NoHeader /\ IsDigitStr(r.retry_after)
                    THEN 10 * IntOf(r.retry_after)
                    ELSE 10 * (2 ^ att) + j
             s == Min(MaxWait(im), raw)
         IN [next |-> "retry", last_err |-> RateLimitErr(im, att, s), sleep_s |-> s,
             value |-> <<>>]

\* lines 183-186 / worker lines 327-330
OnHttpError(im, r) ==
    [next     |-> "break",
     last_err |-> IF im = "app"
                  THEN <<"OpenAI error ", ToString(r.status), ": ", "<body>">>
                  ELSE <<"OpenAI error ", ToString(r.status)>>,
     sleep_s  |-> 0,
     value    |-> <<>>]

\* lines 188-206 / worker lines 332-347: a response with r.ok
OnOk(im, txts, att, r) ==
    IF r.body = "nochoices" THEN OnException(im, att, "KeyError", "choices")
    ELSE IF r.body = "notjson" \/ ~JsonLoads(Unfence(Content(r.fence, "JSON")))
    THEN OnException(im, att, "JSONDecodeError", "Expecting value")
    ELSE IF r.body = "nolist" \/ Len(r.translations) # Len(txts)
    THEN OnException(im, att, "ValueError", "Bad JSON shape")
    ELSE [next |-> "return", last_err |-> None, sleep_s |-> 0,
          value |-> ReturnValue(r.translations, txts)]

\* r.ok of a requests response: raise_for_status() raises from 400 on only
ok(r) == r.status < 400

\* one iteration of "for attempt in range(max_retries)" given the endpoint's response r
\* and the jitter j
AttemptOutcome(im, txts, att, r, j) ==
    IF r.status = 0 THEN OnException(im, att, "ConnectionError", "connection failed")
    ELSE IF r.status = 429 THEN OnRateLimit(im, att, r, j)
    ELSE IF ~ok(r) THEN OnHttpError(im, r)
    ELSE OnOk(im, txts, att, r)

-----------------------------------------------------------------------------
(* translate_batch (app) and the translation section of main (worker) *)

\* the two entries of the backend selectbox
Backends == {<<"OpenAI", " (API key required, batched)">>,
             <<"LibreTranslate", " (free, may be unreliable)">>}

ApiKeys == {EmptyStr, <<"sk-key">>}

\* texts an item can carry: translate_batch accepts a missing/None text and unstripped
\* text; main builds its items itself, from stripped non-empty text
ItemTexts(im) == IF im = "app" THEN {None, <<SP, "a", SP>>} ELSE {<<"a">>, <<"b">>}

\* batch_size: a parameter of translate_batch, the local constant 18 in main
WorkerBatchSize == 18
BatchSizes(im) == IF im = "app" THEN 1..MaxBatch ELSE {WorkerBatchSize}

\* lists of indexed items without translation; for main also one list that does not
\* fit into a single batch
ItemLists(im) ==
    UNION {{[i \in 1..n |-> [index |-> i, text |-> f[i], translation |-> None]] :
              f \in [1..n -> ItemTexts(im)]} : n \in 0..MaxItems}
    \cup (IF im = "worker"
          THEN {[i \in 1..(WorkerBatchSize + 1) |->
                   [index |-> i, text |-> <<"a">>, translation |-> None]]}
          ELSE {})

\* range(start, stop, step) for step > 0
RECURSIVE PyRange(_, _, _)
PyRange(start, stop, step) ==
    IF start >= stop THEN <<>> ELSE <<start>> \o PyRange(start + step, stop, step)

\* s[a:b] for 0 <= a <= b
Slice(s, a, b) == SubSeq(s, a + 1, Min(b, Len(s)))

\* line 255 / worker line 452: the loop's values of i
BatchStarts(txts, size) == PyRange(0, Len(txts), size)
\* (mutant) the slice starts one element late
ChunkLate(txts, i, size) == Slice(txts, i + 1, i + size)

\* line 256 / worker line 453
Chunk(txts, i, size) == Slice(txts, i, i + size)

\* line 248 / worker line 448
TextsOf(im, its) ==
    [i \in 1..Len(its) |->
        IF im = "app" THEN Strip(OrEmpty(its[i].text)) ELSE its[i].text]

\* one entry of sec: no secondary request for this position
NoCall == [called |-> FALSE, q |-> None, answered |-> FALSE, answer |-> None]
\* one entry of sec: a secondary request for text q and what came back
SecCall(q, r) ==
    [called |-> TRUE, q |-> q, answered |-> LibreAnswered(r),
     answer |-> IF LibreAnswered(r) THEN r.translatedText ELSE None]

OcrIdle ==
    /\ regions = <<>> /\ threshold = 0 /\ opc = "idle"
    /\ ordered = <<>> /\ reordered = <<>> /\ merged = <<>>

\* app.py line 108: best = {"lang": "en", "raw": [], "score": 0.0}
DefaultBest == [lang |-> <<"en">>, raw |-> <<>>, score |-> 0]

RecognitionIdle ==
    /\ primary = None /\ langs = <<>> /\ lpc = "idle"
    /\ cpos = 0 /\ best = DefaultBest /\ calls = <<>> /\ apc = "idle" /\ auto_out = <<>>

\* the pipeline is not running
PipelineIdle ==
    /\ raw_results = <<>> /\ min_conf = 0 /\ merge_lines = FALSE
    /\ ppc = "idle" /\ pitems = <<>> /\ stages = <<>>

\* daytona_runner as imported (lines 11-13), nothing called
DaytonaIdle ==
    /\ _daytona_client = FALSE /\ _sandbox = 0 /\ _sandbox_ready = FALSE
    /\ recent = <<>> /\ ncalls = 0 /\ next_id = 0
    /\ installed = {} /\ made = 0

Init ==
    /\ impl \in {"app", "worker"}
    /\ given \in ItemLists(impl)
    /\ items = given
    /\ backend \in Backends
    /\ Len(given) > MaxItems => IsOpenAI(backend)
    /\ api_key \in ApiKeys
    /\ batch_size \in BatchSizes(impl)
    /\ pc = "call"
    /\ texts = <<>> /\ bi = 0 /\ chunk = <<>> /\ attempt = 0 /\ last_err = None
    /\ nreq = 0 /\ last_r = NoResponse /\ sleep_s = 0 /\ resp = <<>> /\ chunk_results = <<>> /\ k = 0
    /\ sec = <<>> /\ translated_texts = <<>>
    /\ OcrIdle
    /\ RecognitionIdle
    /\ PipelineIdle
    /\ DaytonaIdle

\* entry: lines 245-252 and 287-289 / worker lines 446-451 and 468-469
Call ==
    /\ pc = "call"
    /\ IF impl = "app" /\ items = <<>>
       THEN pc' = "done" /\ UNCHANGED <<texts, bi, k>>
       ELSE /\ texts' = IF impl = "app" \/ IsOpenAI(backend)
                        THEN TextsOf(impl, items) ELSE texts
            /\ IF IsOpenAI(backend)
               THEN pc' = "loop" /\ bi' = 1 /\ k' = k
               ELSE /\ pc' = IF items = <<>> THEN "done" ELSE "libre"
                    /\ k' = 1 /\ bi' = bi
    /\ UNCHANGED <<impl, given, items, backend, api_key, batch_size, chunk, attempt,
                   last_err, nreq, last_r, sleep_s, resp, chunk_results, sec,
                   translated_texts, ovars, rvars, pvars, dvars>>

\* (mutant) the attempt loop runs once too often
HasNextOffByOne(att) == att <= max_retries

\* line 156 / worker line 304: "for attempt in range(max_retries)" has a value att
HasNext(att) == att < max_retries

\* translate_openai_batch returns R to its caller: translate_batch goes on to the
\* per-item check (line 268), main extends all_translations and takes the next batch
\* (worker line 463).  The state of the return still shows the call's request record
\* (nreq, last_r, sleep_s) and the error it gave up with (err, None on success); the
\* caller's next step drops them.
Returned(R, err) ==
    /\ chunk_results' = R
    /\ last_err' = err
    /\ attempt' = 0
    /\ IF impl = "app"
       THEN pc' = "fallback" /\ k' = 1 /\ UNCHANGED <<translated_texts, bi>>
       ELSE /\ pc' = "loop" /\ k' = k
            /\ translated_texts' = translated_texts \o R
            /\ bi' = bi + 1

\* lines 255-265 and 122-154 / worker lines 452-461 and 270-302: take the next chunk and
\* call translate_openai_batch, up to its first request
BeginBatch ==
    /\ pc = "loop"
    /\ bi <= Len(BatchStarts(texts, batch_size))
    /\ LET c == Chunk(texts, BatchStarts(texts, batch_size)[bi], batch_size) IN
         /\ chunk' = c
         /\ nreq' = 0 /\ last_r' = NoResponse /\ sleep_s' = 0 /\ sec' = <<>> /\ resp' = <<>>
         /\ IF api_key = EmptyStr
            THEN Returned(MissingKey(c), None)
            ELSE IF HasNext(0)
            THEN /\ pc' = "send" /\ chunk_results' = <<>>
                 /\ attempt' = 0 /\ last_err' = None
                 /\ UNCHANGED <<k, translated_texts, bi>>
            ELSE Returned(FailureFallback(None, c), None)
    /\ UNCHANGED <<impl, given, items, backend, api_key, batch_size, texts, ovars, rvars, pvars, dvars>>

\* lines 156-221 / worker lines 304-356: one attempt: the request, the handling of the
\* response, and then the return, the break to the failure fallback, or the (blocking)
\* sleep followed by the next iteration or by the failure fallback when none is left
Send ==
    /\ pc = "send"
    /\ \E r \in PrimaryResponses(Len(chunk)) : \E j \in JittersFor(impl, r) :
         LET o == AttemptOutcome(impl, chunk, attempt, r, j) IN
           /\ nreq' = nreq + 1
           /\ last_r' = Seen(r)
           /\ sleep_s' = o.sleep_s
           /\ \/ /\ o.next = "return"
                 /\ resp' = r.translations
                 /\ Returned(o.value, None)
              \/ /\ o.next = "break"
                 /\ resp' = resp
                 /\ Returned(FailureFallback(o.last_err, chunk), o.last_err)
              \/ /\ o.next = "retry"
                 /\ resp' = resp
                 /\ IF HasNext(attempt + 1)
                    THEN /\ pc' = "send"
                         /\ attempt' = attempt + 1
                         /\ last_err' = o.last_err
                         /\ UNCHANGED <<chunk_results, k, translated_texts, bi>>
                    ELSE Returned(FailureFallback(o.last_err, chunk), o.last_err)
    /\ UNCHANGED <<impl, given, items, backend, api_key, batch_size, texts, chunk,
                   sec, ovars, rvars, pvars, dvars>>

\* line 280: time.sleep(0.5), in tenths
PacingDelay == 5

\* lines 268-280: one iteration of the per-item fallback check; after the last one the
\* pacing sleep starts
FallbackItem ==
    /\ pc = "fallback"
    /\ k <= Min(Len(chunk), Len(chunk_results))
    /\ LET original == chunk[k]
           result == chunk_results[k]
       IN IF StartsWith(result, FailPrefix)
          THEN \E r \in LibreResponses :
                 /\ translated_texts' = Append(translated_texts, translate_libre(original, r))
                 /\ sec' = Append(sec, SecCall(original, r))
          ELSE /\ translated_texts' = Append(translated_texts, result)
               /\ sec' = Append(sec, NoCall)
    /\ k' = k + 1
    /\ IF k = Min(Len(chunk), Len(chunk_results))
       THEN pc' = "pace" /\ sleep_s' = PacingDelay
       ELSE pc' = pc /\ sleep_s' = 0
    /\ attempt' = 0 /\ last_err' = None /\ nreq' = 0 /\ last_r' = NoResponse
    /\ UNCHANGED <<impl, given, items, backend, api_key, batch_size, texts, bi, chunk,
                   resp, chunk_results, ovars, rvars, pvars, dvars>>

\* line 280 is over: next value of i
Pace ==
    /\ pc = "pace"
    /\ sleep_s' = 0
    /\ bi' = bi + 1
    /\ pc' = "loop"
    /\ UNCHANGED <<impl, given, items, backend, api_key, batch_size, texts, chunk,
                   attempt, last_err, nreq, last_r, resp, chunk_results, k, sec,
                   translated_texts, ovars, rvars, pvars, dvars>>

\* lines 282-285 / worker lines 466-467: attach the translations
Attached(im, its, tt) ==
    [i \in 1..Len(its) |->
        IF i <= Len(tt) THEN [its[i] EXCEPT !.translation = tt[i]]
        ELSE IF im = "app" THEN [its[i] EXCEPT !.translation = its[i].text]
        ELSE its[i]]

Attach ==
    /\ pc = "loop"
    /\ bi > Len(BatchStarts(texts, batch_size))
    /\ items' = Attached(impl, items, translated_texts)
    /\ pc' = "done"
    /\ attempt' = 0 /\ last_err' = None /\ nreq' = 0 /\ last_r' = NoResponse
    /\ sleep_s' = 0
    /\ UNCHANGED <<impl, given, backend, api_key, batch_size, texts, bi, chunk,
                   resp, chunk_results, k, sec, translated_texts, ovars, rvars, pvars, dvars>>

\* lines 289-292 / worker lines 470-475: LibreTranslate, one item per request
LibreItem ==
    /\ pc = "libre"
    /\ k <= Len(items)
    /\ LET t == IF impl = "app" THEN Strip(OrEmpty(items[k].text)) ELSE items[k].text IN
         \E r \in LibreResponses :
           /\ items' = [items EXCEPT ![k].translation = translate_libre(t, r)]
           /\ sec' = Append(sec, SecCall(t, r))
    /\ k' = k + 1
    /\ pc' = IF k = Len(items) THEN "done" ELSE pc
    /\ UNCHANGED <<impl, given, backend, api_key, batch_size, texts, bi, chunk, attempt,
                   last_err, nreq, last_r, sleep_s, resp, chunk_results, translated_texts,
                   ovars, rvars, pvars, dvars>>

Next ==
    \/ Call
    \/ BeginBatch
    \/ Send
    \/ FallbackItem
    \/ Pace
    \/ Attach
    \/ LibreItem

Spec == Init /\ [][Next]_vars

\* the translation is one sequential, blocking thread: whenever it can take a step it does
FairSpec == Init /\ [][Next]_vars /\ WF_vars(Next)

-----------------------------------------------------------------------------
(* ocr_utils: geometry, sort_reading_order, merge_nearby_boxes                   *)
(* (sandbox_worker.py lines 156-242 hold the same functions)                     *)

RECURSIVE SeqMin(_)
SeqMin(s) == IF Len(s) = 1 THEN s[1] ELSE Min(s[1], SeqMin(Tail(s)))
RECURSIVE SeqMax(_)
SeqMax(s) == IF Len(s) = 1 THEN s[1] ELSE Max(s[1], SeqMax(Tail(s)))
RECURSIVE SeqSum(_)
SeqSum(s) == IF s = <<>> THEN 0 ELSE s[1] + SeqSum(Tail(s))

\* a box is a list of four points <<x, y>>; the rectangle is <<x1, y1, x2, y2>>
box_to_rect(box) ==
    LET xs == [p \in 1..Len(box) |-> box[p][1]]
        ys == [p \in 1..Len(box) |-> box[p][2]]
    IN <<SeqMin(xs), SeqMin(ys), SeqMax(xs), SeqMax(ys)>>

\* the centre, doubled: <<2*cx, 2*cy>> = <<x1 + x2, y1 + y2>>
rect_center(rect) == <<rect[1] + rect[3], rect[2] + rect[4]>>

\* line 29: the list of (centre, item) pairs
Centers(its) ==
    [i \in 1..Len(its) |-> [c |-> rect_center(box_to_rect(its[i].box)), it |-> its[i]]]

\* (mutant) the row height never follows the spread of the page
RowBucketFloor(ys2) == <<12, 1>>

\* lines 32-34: row_bucket = max(12.0, y_span / 20.0) as a fraction <<num, den>>; ys2
\* are the doubled centre ordinates, so y_span / 20 = (max - min) / 40
RowBucket(ys2) ==
    LET y_span2 == IF ys2 # <<>> THEN SeqMax(ys2) - SeqMin(ys2) ELSE 2
    IN IF 12 * 40 >= y_span2 THEN <<12, 1>> ELSE <<y_span2, 40>>

\* lines 36-37: int(y // row_bucket), y given doubled
row_key(y2, row_bucket) == (y2 * row_bucket[2]) \div (2 * row_bucket[1])

\* the row_bucket that sort_reading_order computes for a list
RowBucketOf(its) == RowBucket([i \in 1..Len(its) |-> Centers(its)[i].c[2]])

\* (mutant) a row keeps only the last region put into it
BucketLast(centers, row_bucket, rk) ==
    LET b == SelectSeq(centers, LAMBDA t : row_key(t.c[2], row_bucket) = rk)
    IN <<b[Len(b)]>>

\* lines 40-42: buckets[rk], the pairs of one row in input order
Bucket(centers, row_bucket, rk) ==
    SelectSeq(centers, LAMBDA t : row_key(t.c[2], row_bucket) = rk)

\* sorted(buckets.keys())
RECURSIVE SortedKeys(_)
SortedKeys(S) ==
    IF S = {} THEN <<>>
    ELSE LET m == CHOOSE x \in S : \A y \in S : x <= y
         IN <<m>> \o SortedKeys(S \ {m})

\* sorted(row, key = centre x) is stable: an element goes after the elements that are
\* not greater
\* (mutant) an element goes before the elements that are equal: the sort is not stable
RECURSIVE InsertByXStrict(_, _)
InsertByXStrict(s, t) ==
    IF s = <<>> THEN <<t>>
    ELSE IF s[Len(s)].c[1] < t.c[1] THEN Append(s, t)
    ELSE Append(InsertByXStrict(SubSeq(s, 1, Len(s) - 1), t), s[Len(s)])

RECURSIVE InsertByX(_, _)
InsertByX(s, t) ==
    IF s = <<>> THEN <<t>>
    ELSE IF s[Len(s)].c[1] <= t.c[1] THEN Append(s, t)
    ELSE Append(InsertByX(SubSeq(s, 1, Len(s) - 1), t), s[Len(s)])
RECURSIVE SortedByX(_)
SortedByX(row) ==
    IF row = <<>> THEN <<>>
    ELSE InsertByX(SortedByX(SubSeq(row, 1, Len(row) - 1)), row[Len(row)])

\* lines 45-48: the rows in key order, each sorted by x, items only
RECURSIVE ExtendRows(_, _, _)
ExtendRows(centers, row_bucket, rks) ==
    IF rks = <<>> THEN <<>>
    ELSE LET row_sorted == SortedByX(Bucket(centers, row_bucket, rks[1]))
         IN [i \in 1..Len(row_sorted) |-> row_sorted[i].it]
            \o ExtendRows(centers, row_bucket, Tail(rks))

sort_reading_order(its) ==
    IF its = <<>> THEN its
    ELSE LET centers == Centers(its)
             row_bucket == RowBucketOf(its)
             keys == {row_key(centers[i].c[2], row_bucket) : i \in 1..Len(its)}
         IN ExtendRows(centers, row_bucket, SortedKeys(keys))

\* line 83: abs(cy_i - cy_j) < threshold / 2 and abs(cx_i - cx_j) < threshold * 2, on
\* doubled centres
Near(ci, cj, thr) == Abs(ci[2] - cj[2]) < thr /\ Abs(ci[1] - cj[1]) < 4 * thr

\* (mutant) the texts are joined last first
RECURSIVE JoinReversed(_)
JoinReversed(ts) ==
    IF ts = <<>> THEN EmptyStr
    ELSE IF Len(ts) = 1 THEN ts[1]
    ELSE JoinReversed(Tail(ts)) \o <<SP>> \o ts[1]

\* " ".join(texts)
RECURSIVE Join(_)
Join(ts) ==
    IF ts = <<>> THEN EmptyStr
    ELSE IF Len(ts) = 1 THEN ts[1]
    ELSE ts[1] \o <<SP>> \o Join(Tail(ts))

\* (mutant) the quadrilateral is closed with its first corner
FuseFirstCorner(to_merge) ==
    LET all_boxes == [m \in 1..Len(to_merge) |-> box_to_rect(to_merge[m].box)]
        x1 == SeqMin([m \in 1..Len(to_merge) |-> all_boxes[m][1]])
        y1 == SeqMin([m \in 1..Len(to_merge) |-> all_boxes[m][2]])
        x2 == SeqMax([m \in 1..Len(to_merge) |-> all_boxes[m][3]])
        y2 == SeqMax([m \in 1..Len(to_merge) |-> all_boxes[m][4]])
    IN [text |-> Join([m \in 1..Len(to_merge) |-> to_merge[m].text]),
        box  |-> <<(<<x1, y1>>), (<<x2, y1>>), (<<x2, y2>>), (<<x1, y1>>)>>,
        conf |-> <<SeqSum([m \in 1..Len(to_merge) |-> to_merge[m].conf[1]]),
                   Len(to_merge)>>]

\* (mutant) the right edge is the anchor's
FuseAnchorWidth(to_merge) ==
    LET all_boxes == [m \in 1..Len(to_merge) |-> box_to_rect(to_merge[m].box)]
        x1 == SeqMin([m \in 1..Len(to_merge) |-> all_boxes[m][1]])
        y1 == SeqMin([m \in 1..Len(to_merge) |-> all_boxes[m][2]])
        x2 == all_boxes[1][3]
        y2 == SeqMax([m \in 1..Len(to_merge) |-> all_boxes[m][4]])
    IN [text |-> Join([m \in 1..Len(to_merge) |-> to_merge[m].text]),
        box  |-> <<(<<x1, y1>>), (<<x2, y1>>), (<<x2, y2>>), (<<x1, y2>>)>>,
        conf |-> <<SeqSum([m \in 1..Len(to_merge) |-> to_merge[m].conf[1]]),
                   Len(to_merge)>>]

\* lines 91-112: the region built from a group; conf is the fraction <<sum, count>>
Fuse(to_merge) ==
    LET all_boxes == [m \in 1..Len(to_merge) |-> box_to_rect(to_merge[m].box)]
        x1 == SeqMin([m \in 1..Len(to_merge) |-> all_boxes[m][1]])
        y1 == SeqMin([m \in 1..Len(to_merge) |-> all_boxes[m][2]])
        x2 == SeqMax([m \in 1..Len(to_merge) |-> all_boxes[m][3]])
        y2 == SeqMax([m \in 1..Len(to_merge) |-> all_boxes[m][4]])
    IN [text |-> Join([m \in 1..Len(to_merge) |-> to_merge[m].text]),
        box  |-> <<(<<x1, y1>>), (<<x2, y1>>), (<<x2, y2>>), (<<x1, y2>>)>>,
        conf |-> <<SeqSum([m \in 1..Len(to_merge) |-> to_merge[m].conf[1]]),
                   Len(to_merge)>>]

\* (mutant) a region joins when it is near any member of the group, not only the anchor
RECURSIVE ScanChained(_, _, _, _, _)
ScanChained(its, thr, grp, j, skip) ==
    IF j > Len(its) THEN grp
    ELSE IF /\ j \notin skip
            /\ \E m \in 1..Len(grp) :
                 Near(rect_center(box_to_rect(its[grp[m]].box)),
                      rect_center(box_to_rect(its[j].box)), thr)
         THEN ScanChained(its, thr, Append(grp, j), j + 1, skip)
         ELSE ScanChained(its, thr, grp, j + 1, skip)
RECURSIVE GroupsFromChained(_, _, _, _)
GroupsFromChained(its, thr, i, skip) ==
    IF i > Len(its) THEN <<>>
    ELSE IF i \in skip THEN GroupsFromChained(its, thr, i + 1, skip)
    ELSE LET grp == ScanChained(its, thr, <<i>>, i + 1, skip)
         IN <<grp>> \o GroupsFromChained(its, thr, i + 1,
                                          skip \cup {grp[m] : m \in 2..Len(grp)})

\* lines 62-88: the groups (to_merge, as input positions) in the order they are appended;
\* i is the position of the outer loop, skip the set of claimed positions
RECURSIVE GroupsFrom(_, _, _, _)
GroupsFrom(its, thr, i, skip) ==
    IF i > Len(its) THEN <<>>
    ELSE IF i \in skip THEN GroupsFrom(its, thr, i + 1, skip)
    ELSE LET ci == rect_center(box_to_rect(its[i].box))
             js == {j \in (i + 1)..Len(its) :
                      /\ j \notin skip
                      /\ Near(ci, rect_center(box_to_rect(its[j].box)), thr)}
         IN <<(<<i>> \o SortedKeys(js))>> \o GroupsFrom(its, thr, i + 1, skip \cup js)

MergeGroups(its, thr) == GroupsFrom(its, thr, 1, {})

merge_nearby_boxes(its, thr) ==
    IF its = <<>> \/ Len(its) <= 1 THEN its
    ELSE LET groups == MergeGroups(its, thr)
         IN [g \in 1..Len(groups) |->
               IF Len(groups[g]) = 1 THEN its[groups[g][1]]
               ELSE Fuse([m \in 1..Len(groups[g]) |-> its[groups[g][m]]])]

\* detections used as inputs: a text, a quadrilateral (points in any order, not always
\* axis-aligned), a confidence in hundredths as the fraction <<c, 1>>
RegionCatalogue ==
    {[text |-> <<"Hello">>, conf |-> <<90, 1>>,
      box |-> <<(<<80, 40>>), (<<120, 40>>), (<<120, 60>>), (<<80, 60>>)>>],     \* centre (100, 50)
     [text |-> <<"World">>, conf |-> <<80, 1>>,
      box |-> <<(<<160, 62>>), (<<120, 62>>), (<<120, 42>>), (<<160, 42>>)>>],   \* centre (140, 52)
     [text |-> <<"Tie">>, conf |-> <<70, 1>>,
      box |-> <<(<<90, 45>>), (<<110, 45>>), (<<110, 55>>), (<<90, 55>>)>>],     \* centre (100, 50)
     [text |-> <<"Far">>, conf |-> <<60, 1>>,
      box |-> <<(<<200, 46>>), (<<240, 48>>), (<<238, 66>>), (<<202, 64>>)>>],   \* centre (220, 56)
     [text |-> <<"Low">>, conf |-> <<95, 1>>,
      box |-> <<(<<95, 57>>), (<<105, 57>>), (<<105, 66>>), (<<95, 66>>)>>],     \* centre (100, 61.5)
     [text |-> <<"End">>, conf |-> <<50, 1>>,
      box |-> <<(<<40, 690>>), (<<62, 695>>), (<<60, 710>>), (<<38, 705>>)>>]}   \* centre (50, 700)

RegionLists == UNION {[1..n -> RegionCatalogue] : n \in 0..MaxRegions}

\* the default threshold 50.0 and a tighter one
Thresholds == {50, 30}

TranslationIdle ==
    /\ impl = "app" /\ given = <<>> /\ items = <<>>
    /\ backend = <<"LibreTranslate", " (free, may be unreliable)">>
    /\ api_key = EmptyStr /\ batch_size = 18 /\ pc = "idle"
    /\ texts = <<>> /\ bi = 0 /\ chunk = <<>> /\ attempt = 0 /\ last_err = None
    /\ nreq = 0 /\ last_r = NoResponse /\ sleep_s = 0 /\ resp = <<>>
    /\ chunk_results = <<>> /\ k = 0 /\ sec = <<>> /\ translated_texts = <<>>

InitOcr ==
    /\ regions \in RegionLists
    /\ threshold \in Thresholds
    /\ opc = {}
    /\ ordered = <<>> /\ reordered = <<>> /\ merged = <<>>
    /\ TranslationIdle
    /\ RecognitionIdle
    /\ PipelineIdle
    /\ DaytonaIdle

\* items = sort_reading_order(items)
SortStep ==
    /\ "sort" \notin opc
    /\ ordered' = sort_reading_order(regions)
    /\ opc' = opc \cup {"sort"}
    /\ UNCHANGED <<regions, threshold, reordered, merged, tvars, rvars, pvars, dvars>>

\* the sorted list is sorted once more
ResortStep ==
    /\ "sort" \in opc /\ "resort" \notin opc
    /\ reordered' = sort_reading_order(ordered)
    /\ opc' = opc \cup {"resort"}
    /\ UNCHANGED <<regions, threshold, ordered, merged, tvars, rvars, pvars, dvars>>

\* items = merge_nearby_boxes(items, threshold)
MergeStep ==
    /\ "merge" \notin opc
    /\ merged' = merge_nearby_boxes(regions, threshold)
    /\ opc' = opc \cup {"merge"}
    /\ UNCHANGED <<regions, threshold, ordered, reordered, tvars, rvars, pvars, dvars>>

NextOcr ==
    \/ SortStep
    \/ ResortStep
    \/ MergeStep

SpecOcr == InitOcr /\ [][NextOcr]_vars

-----------------------------------------------------------------------------
(* safe_easyocr_lang_list: app.py lines 28-52, sandbox_worker.py lines 97-120     *)
(* (the definition at sandbox_worker.py line 23 is replaced by the one at line 97) *)

\* language tags as they are written in lower case and in upper case
LowerTags == <<"ch_sim", "ch_tra", "zh_sim", "zh_tra", "ja", "ko", "ar", "fr", "es", "de",
               "ru", "pt", "it", "tr", "en", "zh", "th", "japanese", "xx">>
UpperTags == <<"CH_SIM", "CH_TRA", "ZH_SIM", "ZH_TRA", "JA", "KO", "AR", "FR", "ES", "DE",
               "RU", "PT", "IT", "TR", "EN", "ZH", "TH", "JAPANESE", "XX">>

\* str.lower(), token by token
LowerTok(t) ==
    IF \E i \in 1..Len(UpperTags) : UpperTags[i] = t
    THEN LowerTags[CHOOSE i \in 1..Len(UpperTags) : UpperTags[i] = t]
    ELSE t
Lower(s) == [i \in 1..Len(s) |-> LowerTok(s[i])]

\* (mutant) both Chinese variants are loaded together
ChineseListBoth(p) == <<(<<"ch_sim">>), (<<"ch_tra">>), (<<"en">>)>>

\* line 37
ChineseList(p) ==
    IF StartsWith(p, "ch_sim") \/ p = <<"zh_sim">>
    THEN <<(<<"ch_sim">>), (<<"en">>)>>
    ELSE <<(<<"ch_tra">>), (<<"en">>)>>

\* lines 33-52; the auto_out is a list of strings
safe_easyocr_lang_list(p0) ==
    LET p == Lower(Strip(IF p0 = None \/ p0 = EmptyStr THEN <<"en">> ELSE p0))
    IN IF p \in {<<"ch_sim">>, <<"ch_tra">>, <<"zh_sim">>, <<"zh_tra">>} THEN ChineseList(p)
       ELSE IF p \in {<<"ja">>, <<"ko">>} THEN <<p, (<<"en">>)>>
       ELSE IF p = <<"ar">> THEN <<(<<"ar">>), (<<"en">>)>>
       ELSE IF p \in {<<"fr">>, <<"es">>, <<"de">>, <<"ru">>, <<"pt">>, <<"it">>, <<"tr">>}
       THEN <<p, (<<"en">>)>>
       ELSE <<(IF p # EmptyStr THEN p ELSE <<"en">>)>>

\* arguments: no tag, the empty and the blank string, every tag plain, in upper case,
\* padded with spaces, and two tags in one string
LangInputs ==
    {None, EmptyStr, <<SP>>, <<"ja", SP, "ko">>}
    \cup {<<LowerTags[i]>> : i \in 1..Len(LowerTags)}
    \cup {<<UpperTags[i]>> : i \in 1..Len(UpperTags)}
    \cup {<<SP, LowerTags[i], SP>> : i \in 1..Len(LowerTags)}
    \cup {<<UpperTags[i], SP>> : i \in 1..Len(UpperTags)}

InitLang ==
    /\ primary \in LangInputs
    /\ langs = <<>> /\ lpc = "call"
    /\ cpos = 0 /\ best = DefaultBest /\ calls = <<>> /\ apc = "idle" /\ auto_out = <<>>
    /\ TranslationIdle
    /\ regions = <<>> /\ threshold = 0 /\ opc = {}
    /\ ordered = <<>> /\ reordered = <<>> /\ merged = <<>>
    /\ PipelineIdle
    /\ DaytonaIdle

\* run_ocr line 71: langs = tuple(safe_easyocr_lang_list(primary_lang))
Normalize ==
    /\ lpc = "call"
    /\ langs' = safe_easyocr_lang_list(primary)
    /\ lpc' = "done"
    /\ UNCHANGED <<primary, cpos, best, calls, apc, auto_out, tvars, ovars, pvars, dvars>>

NextLang == Normalize

SpecLang == InitLang /\ [][NextLang]_vars

-----------------------------------------------------------------------------
(* run_ocr_auto: app.py lines 76-128                                              *)

\* line 106
candidates == <<"ja", "ch_sim", "ko", "en", "ar", "fr", "ch_tra">>

\* a raw OCR auto_out is a list of detections; the box plays no part and is left out, the
\* confidence is in hundredths
Dets(n, text, conf) == [i \in 1..n |-> [text |-> text, conf |-> conf]]

\* what one readtext call can give: blanks only, eight detections of low confidence,
\* seven of high confidence, and eight that score exactly 6.0 next to one without text
RawMenu ==
    {Dets(2, <<SP>>, 90),
     Dets(8, <<"t">>, 50),
     Dets(7, <<"t">>, 90),
     Dets(8, <<SP, "t">>, 75) \o Dets(1, None, 99)}

\* lines 88-94
_clean(raw) ==
    LET kept == SelectSeq(raw, LAMBDA d : Strip(OrEmpty(d.text)) # EmptyStr)
    IN [i \in 1..Len(kept) |-> [text |-> Strip(OrEmpty(kept[i].text)), conf |-> kept[i].conf]]

\* (mutant) blank detections count
_scoreRaw(raw0) == SeqSum([i \in 1..Len(raw0) |-> raw0[i].conf])

\* lines 96-103: len(raw) * (sum(confs) / max(1, len(confs))), in hundredths
_score(raw0) ==
    LET raw == _clean(raw0)
        confs == [i \in 1..Len(raw) |-> raw[i].conf]
    IN IF raw = <<>> THEN 0
       ELSE (Len(raw) * SeqSum(confs)) \div Max(1, Len(confs))

\* line 123: 6.0 in hundredths, and the number of cleaned detections
ExitScore == 600
ExitCount == 8

\* (mutant) the loop never leaves early
StrongNever(b) == FALSE

\* line 123
Strong(b) == b.score >= ExitScore /\ Len(_clean(b.raw)) >= ExitCount

InitAuto ==
    /\ apc = "probe" /\ cpos = 1 /\ best = DefaultBest /\ calls = <<>> /\ auto_out = <<>>
    /\ primary = None /\ langs = <<>> /\ lpc = "idle"
    /\ TranslationIdle
    /\ regions = <<>> /\ threshold = 0 /\ opc = {}
    /\ ordered = <<>> /\ reordered = <<>> /\ merged = <<>>
    /\ PipelineIdle
    /\ DaytonaIdle

\* the loop is over: line 110 has no further candidate
LoopEnd(i) == IF i > Len(candidates) THEN "return" ELSE "probe"

\* lines 110-116: the OCR call for candidates[cpos] raises and the candidate is skipped
ProbeRaises ==
    /\ apc = "probe" /\ cpos <= Len(candidates)
    /\ calls' = Append(calls, [lang |-> <<candidates[cpos]>>,
                               langs |-> safe_easyocr_lang_list(<<candidates[cpos]>>),
                               raised |-> TRUE, raw |-> <<>>])
    /\ cpos' = cpos + 1
    /\ apc' = LoopEnd(cpos + 1)
    /\ UNCHANGED <<best, auto_out, primary, langs, lpc, tvars, ovars, pvars, dvars>>

\* lines 110-124: the OCR call returns raw
ProbeReturns ==
    /\ apc = "probe" /\ cpos <= Len(candidates)
    /\ \E raw \in RawMenu :
         LET s == _score(raw)
             b == IF s > best.score
                  THEN [lang |-> <<candidates[cpos]>>, raw |-> raw, score |-> s]
                  ELSE best
         IN /\ calls' = Append(calls, [lang |-> <<candidates[cpos]>>,
                                       langs |-> safe_easyocr_lang_list(<<candidates[cpos]>>),
                                       raised |-> FALSE, raw |-> raw])
            /\ best' = b
            /\ IF Strong(b)
               THEN apc' = "return" /\ cpos' = cpos
               ELSE apc' = LoopEnd(cpos + 1) /\ cpos' = cpos + 1
    /\ UNCHANGED <<auto_out, primary, langs, lpc, tvars, ovars, pvars, dvars>>

\* line 128
ReturnBest ==
    /\ apc = "return"
    /\ auto_out' = <<best.lang, best.raw>>
    /\ apc' = "done"
    /\ UNCHANGED <<cpos, best, calls, primary, langs, lpc, tvars, ovars, pvars, dvars>>

NextAuto ==
    \/ ProbeRaises
    \/ ProbeReturns
    \/ ReturnBest

SpecAuto == InitAuto /\ [][NextAuto]_vars

-----------------------------------------------------------------------------
(* The pipeline: process_local (app.py lines 160-222) and main of the worker      *)
(* (sandbox_worker.py lines 400-475)                                              *)

\* detections as the OCR returns them: (box, text, conf), conf in hundredths
DetHello == [text |-> <<"Hello">>, conf |-> 90,
             box |-> <<(<<80, 40>>), (<<120, 40>>), (<<120, 60>>), (<<80, 60>>)>>]
DetWorld == [text |-> <<SP, "World">>, conf |-> 80,
             box |-> <<(<<160, 62>>), (<<120, 62>>), (<<120, 42>>), (<<160, 42>>)>>]
DetEnd   == [text |-> <<"End">>, conf |-> 50,
             box |-> <<(<<40, 690>>), (<<62, 695>>), (<<60, 710>>), (<<38, 705>>)>>]
DetTop   == [text |-> <<"Top", SP>>, conf |-> 60,
             box |-> <<(<<300, 10>>), (<<340, 10>>), (<<340, 30>>), (<<300, 30>>)>>]
DetBlank == [text |-> <<SP>>, conf |-> 99,
             box |-> <<(<<10, 10>>), (<<20, 10>>), (<<20, 20>>), (<<10, 20>>)>>]
DetNone  == [text |-> None, conf |-> 95,
             box |-> <<(<<10, 300>>), (<<20, 300>>), (<<20, 320>>), (<<10, 320>>)>>]
DetFaint == [text |-> <<"Faint">>, conf |-> 30,
             box |-> <<(<<200, 300>>), (<<240, 300>>), (<<240, 320>>), (<<200, 320>>)>>]

\* results of one OCR run
RawLists ==
    {<<>>,
     <<DetFaint, DetBlank>>,
     <<DetEnd, DetWorld, DetHello>>,
     <<DetWorld, DetNone, DetTop>>,
     <<DetEnd, DetFaint, DetTop, DetHello>>,
     <<DetHello, DetBlank, DetEnd, DetWorld>>}

\* values of the min_conf slider: its default 0.35 and a stricter one
MinConfs == {35, 60}

\* lines 183-192 / worker lines 417-426: the detections that are kept, as items
RECURSIVE Kept(_, _)
Kept(raw, mc) ==
    IF raw = <<>> THEN <<>>
    ELSE LET t == Strip(OrEmpty(raw[1].text))
         IN IF t = EmptyStr \/ raw[1].conf < mc
            THEN Kept(Tail(raw), mc)
            ELSE <<[text |-> t, box |-> raw[1].box, conf |-> <<raw[1].conf, 1>>]>>
                 \o Kept(Tail(raw), mc)

\* (mutant) enumerate without start=1
IndexedFromZero(its) ==
    [i \in 1..Len(its) |->
        [text |-> its[i].text, box |-> its[i].box, conf |-> its[i].conf, index |-> i - 1]]

\* lines 209-210 / worker lines 440-441: item["index"] = idx for enumerate(items, start=1)
Indexed(its) ==
    [i \in 1..Len(its) |->
        [text |-> its[i].text, box |-> its[i].box, conf |-> its[i].conf, index |-> i]]

\* the items as translate_batch / the translation section of main first sees them: no
\* item has a translation yet
Untranslated(its) ==
    [i \in 1..Len(its) |->
        [text |-> its[i].text, box |-> its[i].box, conf |-> its[i].conf,
         index |-> its[i].index, translation |-> None]]

\* the state after OCR: translate_batch is always called with its default batch_size
InitPipe ==
    /\ raw_results \in RawLists
    /\ min_conf \in MinConfs
    /\ merge_lines \in BOOLEAN
    /\ ppc = "filter" /\ pitems = <<>> /\ stages = <<>>
    /\ impl \in {"app", "worker"}
    /\ backend \in Backends
    /\ api_key \in ApiKeys
    /\ batch_size = WorkerBatchSize
    /\ given = <<>> /\ items = <<>> /\ pc = "idle"
    /\ texts = <<>> /\ bi = 0 /\ chunk = <<>> /\ attempt = 0 /\ last_err = None
    /\ nreq = 0 /\ last_r = NoResponse /\ sleep_s = 0 /\ resp = <<>>
    /\ chunk_results = <<>> /\ k = 0 /\ sec = <<>> /\ translated_texts = <<>>
    /\ OcrIdle
    /\ RecognitionIdle
    /\ DaytonaIdle

\* lines 182-198 / worker lines 416-428: filter; process_local returns when nothing is left
FilterStage ==
    /\ ppc = "filter"
    /\ pitems' = Kept(raw_results, min_conf)
    /\ stages' = Append(stages, "filter")
    /\ ppc' = IF impl = "app" /\ pitems' = <<>> THEN "done" ELSE "merge"
    /\ UNCHANGED <<raw_results, min_conf, merge_lines, tvars, ovars, rvars, dvars>>

\* lines 201-203 / worker lines 431-433: merge if requested
MergeStage ==
    /\ ppc = "merge"
    /\ IF merge_lines
       THEN /\ pitems' = merge_nearby_boxes(pitems, 50)
            /\ stages' = Append(stages, "merge")
       ELSE UNCHANGED <<pitems, stages>>
    /\ ppc' = "sort"
    /\ UNCHANGED <<raw_results, min_conf, merge_lines, tvars, ovars, rvars, dvars>>

\* line 206 / worker line 436
SortStage ==
    /\ ppc = "sort"
    /\ pitems' = sort_reading_order(pitems)
    /\ stages' = Append(stages, "sort")
    /\ ppc' = "index"
    /\ UNCHANGED <<raw_results, min_conf, merge_lines, tvars, ovars, rvars, dvars>>

\* lines 209-210 / worker lines 440-441
IndexStage ==
    /\ ppc = "index"
    /\ pitems' = Indexed(pitems)
    /\ stages' = Append(stages, "index")
    /\ ppc' = "translate"
    /\ UNCHANGED <<raw_results, min_conf, merge_lines, tvars, ovars, rvars, dvars>>

\* lines 213-221 / worker line 443: the translation is entered with the indexed items
TranslateStage ==
    /\ ppc = "translate"
    /\ items' = Untranslated(pitems)
    /\ given' = Untranslated(pitems)
    /\ pc' = "call"
    /\ stages' = Append(stages, "translate")
    /\ ppc' = "translating"
    /\ UNCHANGED <<raw_results, min_conf, merge_lines, pitems, impl, backend, api_key,
                   batch_size, texts, bi, chunk, attempt, last_err, nreq, last_r,
                   sleep_s, resp, chunk_results, k, sec, translated_texts, ovars, rvars,
                   dvars>>

\* line 213: items = translate_batch(...) / in the worker the dicts were updated in place
TranslatedStage ==
    /\ ppc = "translating" /\ pc = "done"
    /\ pitems' = items
    /\ ppc' = "done"
    /\ UNCHANGED <<raw_results, min_conf, merge_lines, stages, tvars, ovars, rvars, dvars>>

NextPipe ==
    \/ FilterStage
    \/ MergeStage
    \/ SortStage
    \/ IndexStage
    \/ TranslateStage
    \/ Call
    \/ BeginBatch
    \/ Send
    \/ FallbackItem
    \/ Pace
    \/ Attach
    \/ LibreItem
    \/ TranslatedStage

SpecPipe == InitPipe /\ [][NextPipe]_vars

-----------------------------------------------------------------------------
(* daytona_runner: the cached client, the sandbox and the dependencies flag       *)

\* the commands of ensure_sandbox_deps, lines 66-73
InstallCmds == <<"exec python -V", "exec pip install --upgrade pip", "exec pip install deps">>

\* the longest chain of steps that can raise in one call: the client, create, three
\* installs, two uploads and the local open, the worker, three downloads
StepsOfRun == 12

\* the state a function works on: the three globals, the history (nid, inst, made), what
\* the call did so far (log), whether it raised, and how many further steps succeed
Globals(budget) ==
    [cl |-> _daytona_client, sb |-> _sandbox, ready |-> _sandbox_ready,
     nid |-> next_id, inst |-> installed, made |-> made,
     log |-> <<>>, raised |-> FALSE, budget |-> budget]

\* one step that can raise (a remote operation, a constructor, an open): it succeeds
\* while the budget lasts; a step after an exception does not happen
Step(st, op) ==
    IF st.raised THEN st
    ELSE IF st.budget = 0
    THEN [st EXCEPT !.raised = TRUE,
                    !.log = Append(st.log, [op |-> op, sb |-> st.sb, ok |-> FALSE])]
    ELSE [st EXCEPT !.budget = st.budget - 1,
                    !.log = Append(st.log, [op |-> op, sb |-> st.sb, ok |-> TRUE]),
                    !.inst = IF op = InstallCmds[Len(InstallCmds)]
                             THEN st.inst \cup {st.sb} ELSE st.inst]

\* lines 16-24
get_daytona_client(st) ==
    IF st.raised \/ st.cl THEN st
    ELSE LET s1 == Step(st, "Daytona()")
         IN IF s1.raised THEN s1 ELSE [s1 EXCEPT !.cl = TRUE]

\* (mutant) a sandbox is created at every call
NeedsCreateAlways(sb) == TRUE

\* line 32: if _sandbox is None
NeedsCreate(sb) == sb = 0

\* lines 27-35
get_or_create_sandbox(st) ==
    IF st.raised \/ ~NeedsCreate(st.sb) THEN st
    ELSE LET s1 == Step(get_daytona_client(st), "create")
         IN IF s1.raised THEN s1
            ELSE [s1 EXCEPT !.sb = s1.nid + 1, !.nid = s1.nid + 1, !.made = s1.made + 1,
                            !.log[Len(s1.log)].sb = s1.nid + 1]

\* (mutant) the flag survives the reset
ClearedSandboxOnly(st) == [st EXCEPT !.sb = 0, !.made = 0]

\* lines 49-50; made counts from the last reset
Cleared(st) == [st EXCEPT !.sb = 0, !.ready = FALSE, !.made = 0]

\* lines 38-50: the exception of delete is caught, one of get_daytona_client is not
reset_sandbox(st) ==
    IF st.sb # 0
    THEN LET s1 == get_daytona_client(st)
         IN IF s1.raised THEN s1
            ELSE Cleared([Step(s1, "delete") EXCEPT !.raised = FALSE])
    ELSE Cleared(st)

\* lines 53-76
ensure_sandbox_deps(st) ==
    IF st.raised \/ st.ready THEN st
    ELSE LET s1 == get_or_create_sandbox(st)
             s2 == Step(Step(Step(s1, InstallCmds[1]), InstallCmds[2]), InstallCmds[3])
         IN IF s2.raised THEN s2 ELSE [s2 EXCEPT !.ready = TRUE]

\* lines 79-135
run_in_daytona(st) ==
    LET s1 == ensure_sandbox_deps(get_or_create_sandbox(st))
        s2 == Step(s1, "upload input.png")
        s3 == Step(Step(s2, "open sandbox_worker.py"), "upload sandbox_worker.py")
        s4 == Step(s3, "exec python sandbox_worker.py")
    IN Step(Step(Step(s4, "download annotated.png"), "download results.json"),
            "download results.csv")

\* the module as imported
InitDaytona ==
    /\ DaytonaIdle
    /\ TranslationIdle
    /\ OcrIdle
    /\ RecognitionIdle
    /\ PipelineIdle

\* a call has returned or raised: the globals and the record of the call
Called(name, st) ==
    /\ _daytona_client' = st.cl
    /\ _sandbox' = st.sb
    /\ _sandbox_ready' = st.ready
    /\ next_id' = st.nid
    /\ installed' = st.inst
    /\ made' = st.made
    /\ ncalls' = ncalls + 1
    /\ recent' = (IF recent = <<>> THEN <<>> ELSE <<recent[Len(recent)]>>)
                 \o <<[call |-> name, ops |-> st.log, raised |-> st.raised]>>
    /\ UNCHANGED <<tvars, ovars, rvars, pvars>>

CallGetOrCreate ==
    /\ ncalls < MaxCalls
    /\ \E b \in 0..StepsOfRun : Called("get_or_create_sandbox", get_or_create_sandbox(Globals(b)))

CallEnsureDeps ==
    /\ ncalls < MaxCalls
    /\ \E b \in 0..StepsOfRun : Called("ensure_sandbox_deps", ensure_sandbox_deps(Globals(b)))

CallRun ==
    /\ ncalls < MaxCalls
    /\ \E b \in 0..StepsOfRun : Called("run_in_daytona", run_in_daytona(Globals(b)))

CallReset ==
    /\ ncalls < MaxCalls
    /\ \E b \in 0..StepsOfRun : Called("reset_sandbox", reset_sandbox(Globals(b)))

NextDaytona ==
    \/ CallGetOrCreate
    \/ CallEnsureDeps
    \/ CallRun
    \/ CallReset

SpecDaytona == InitDaytona /\ [][NextDaytona]_vars

-----------------------------------------------------------------------------
(* Properties of the translation, checked under Spec *)

\* the text translate_batch / main works with for item i
OwnText(i) == IF impl = "app" THEN Strip(OrEmpty(given[i].text)) ELSE given[i].text

\* offset of the current batch in texts
Base == (bi - 1) * batch_size

\* the per-item loop of the current batch is running or just over
InBatch == pc \in {"fallback", "pace"}

\* s is text t behind a tag: "[OpenAI failed...] t" or "[Missing OpenAI key] t"
Tagged(s, t) ==
    /\ s # None /\ Len(s) >= Len(t) + 2
    /\ s[1] \in {FailPrefix, "[Missing OpenAI key]"}
    /\ SubSeq(s, Len(s) - Len(t), Len(s)) = <<SP>> \o t

\* tt, the translation of the p-th text of the current batch (or of the Libre loop), comes
\* from that text t: the primary's answer at position p, the secondary's answer to a
\* request for t, t behind a tag, or (only if untagged is allowed) t itself
Derived(tt, t, p, untagged) ==
    \/ /\ resp # <<>> /\ p <= Len(resp) /\ resp[p] # None /\ tt = resp[p]
    \/ /\ sec[p].called /\ sec[p].q = t /\ sec[p].answered /\ tt = sec[p].answer
    \/ Tagged(tt, t)
    \/ untagged /\ tt = t

C1_Shape(untagged) ==
    impl = "app" =>
      /\ Len(items) = Len(given)
      /\ \A i \in 1..Len(given) :
           items[i].index = given[i].index /\ items[i].text = given[i].text
      /\ (IsOpenAI(backend) /\ InBatch) =>
           /\ Len(translated_texts) = Base + Len(sec)
           /\ \A p \in 1..Len(sec) :
                /\ Base + p <= Len(given)
                /\ Derived(translated_texts[Base + p], OwnText(Base + p), p, untagged)
      /\ (~IsOpenAI(backend) /\ pc \in {"libre", "done"}) =>
           /\ Len(sec) <= Len(given)
           /\ pc = "done" => Len(sec) = Len(given)
           /\ \A p \in 1..Len(sec) : Derived(items[p].translation, OwnText(p), p, untagged)
      /\ (IsOpenAI(backend) /\ pc = "done" /\ given # <<>>) =>
           /\ Len(translated_texts) = Len(given)
           /\ \A i \in 1..Len(given) : items[i].translation = translated_texts[i]

\* an appended translation is never changed or removed afterwards
C1_Kept ==
    /\ Len(translated_texts') >= Len(translated_texts)
    /\ SubSeq(translated_texts', 1, Len(translated_texts)) = translated_texts
    /\ given' = given

\* C1 as stated: translate_batch returns as many items as given, in the same order,
\* and every translation is the primary's answer at the item's position, the secondary's
\* answer for the item's text, or that text with a tag
C1_AsStated == C1_Shape(FALSE)

\* C1 amended: as C1_AsStated, but the translation may also be the item's text unchanged
\* (null answer of the primary, failed or empty answer of the secondary)
C1_Aligned == [](C1_Shape(TRUE)) /\ [][C1_Kept]_vars

C1_Witness ==
    /\ impl = "app" /\ pc = "done" /\ IsOpenAI(backend)
    /\ Len(given) = 3 /\ batch_size = 2
    /\ items[1].translation = <<"x">>
    /\ items[2].translation = OwnText(2)
    /\ items[3].translation = <<"L">>

\* translate_openai_batch is returning after at least one request
ReturnState == pc \in {"fallback", "loop"} /\ last_r # NoResponse
\* ... having used all attempts and without a valid response
GaveUp == ReturnState /\ nreq = max_retries /\ last_err # None

\* the error text e of a tag names the error of response r, the last of max_retries
NamesLast(e, r) ==
    /\ e # <<>>
    /\ r.status = 0 => e[Len(e)] = "connection failed"
    /\ r.status = 429 =>
         \/ r.quota /\ impl = "app" /\ e = <<"insufficient_quota">>
         \/ r.retry_after = "SUPERSCRIPT TWO" /\ e[Len(e)] = "invalid literal for int()"
         \/ /\ e[1] = "429 rate limit (attempt "
            /\ e[2] = ToString(max_retries) /\ e[4] = ToString(max_retries)
    /\ r.status = 500 => e[1] = "OpenAI error " /\ e[2] = "500"
    /\ r.status \in {200, 304} =>
         e[Len(e)] \in {"choices", "Expecting value", "Bad JSON shape"}

\* C2: after max_retries attempts without a valid response translate_openai_batch returns
\* one string per segment, each the segment behind a failure tag that names the last error
C2_ExhaustedTagged ==
    GaveUp =>
      /\ Len(chunk_results) = Len(chunk)
      /\ \A i \in 1..Len(chunk) :
           LET s == chunk_results[i]
               e == SubSeq(s, 3, Len(s) - Len(chunk[i]) - 2)
           IN /\ s = <<FailPrefix, ": ">> \o e \o <<"]", SP>> \o chunk[i]
              /\ NamesLast(e, last_r)

C2_Witness ==
    /\ GaveUp /\ impl = "app" /\ last_r.status = 200 /\ Len(chunk) = 2
    /\ chunk_results[2] =
         <<FailPrefix, ": ", "Unexpected error: ", "Bad JSON shape", "]", SP>> \o chunk[2]

\* C3 as stated: with the OpenAI backend an item whose batch result starts with the
\* failure prefix gets one secondary request and, if that request fails, keeps the tagged
\* string; the other items get no secondary request
C3_AsStated ==
    (impl = "app" /\ IsOpenAI(backend) /\ InBatch) =>
      \A p \in 1..Len(sec) :
        IF StartsWith(chunk_results[p], FailPrefix)
        THEN /\ sec[p].called
             /\ ~sec[p].answered => translated_texts[Base + p] = chunk_results[p]
        ELSE ~sec[p].called

\* a measure of the work left, for termination
BatchWeight == max_retries + Len(given) + 3
BatchesLeft == Len(BatchStarts(texts, batch_size)) - bi
Rank ==
    IF pc = "call" THEN (Len(given) + 1) * BatchWeight + 2
    ELSE IF pc = "loop" THEN (BatchesLeft + 1) * BatchWeight + 1
    ELSE IF pc = "send"
    THEN BatchesLeft * BatchWeight + 2 + Len(chunk) + (max_retries - attempt)
    ELSE IF pc = "fallback" THEN BatchesLeft * BatchWeight + 2 + (Len(chunk) - k + 1)
    ELSE IF pc = "pace" THEN BatchesLeft * BatchWeight + 2
    ELSE IF pc = "libre" THEN Len(items) - k + 2
    ELSE 0

C4_Bounded ==
    /\ nreq <= max_retries
    /\ Len(sec) <= Len(given)
    /\ Rank >= 0
    /\ pc # "done" => ENABLED Next
    /\ (pc = "done" /\ impl = "app") =>
         /\ Len(items) = Len(given)
         /\ \A i \in 1..Len(items) : items[i].translation # None

\* C4: whatever the remote services answer, a batch sends at most max_retries primary
\* requests, a position gets at most one secondary request, every step reduces the work
\* left and a step is possible until the result has been returned: the call terminates
\* with a result
C4_Terminates == [](C4_Bounded) /\ [][Rank' < Rank]_vars

C4_Witness ==
    /\ impl = "app" /\ pc = "fallback" /\ k = 1 /\ nreq = max_retries
    /\ last_r.status = 429 /\ bi = 2

\* C5: with an empty API key no primary request is sent, every segment gets the
\* missing-key placeholder, and no secondary request is sent for it
C5_NoNetwork ==
    (IsOpenAI(backend) /\ api_key = EmptyStr) =>
      /\ nreq = 0 /\ last_r = NoResponse
      /\ \A p \in 1..Len(sec) : ~sec[p].called
      /\ (InBatch \/ (impl = "worker" /\ pc = "loop" /\ bi > 1)) =>
           chunk_results = [i \in 1..Len(chunk) |-> <<"[Missing OpenAI key]", SP>> \o chunk[i]]
      /\ pc = "done" =>
           \A i \in 1..Len(given) :
             items[i].translation = <<"[Missing OpenAI key]", SP>> \o OwnText(i)

C5_Witness ==
    /\ impl = "app" /\ IsOpenAI(backend) /\ api_key = EmptyStr /\ pc = "done"
    /\ Len(given) = 3 /\ batch_size = 2 /\ Len(sec) = 1

\* twenty texts
TwentyTexts == [i \in 1..20 |-> <<"t">>]

\* C6: N texts and batch size B give ceil(N/B) batches, taken in order; batch b is the
\* texts (b-1)*B+1 .. min(b*B, N); the first request of a batch is sent only when the
\* results of all earlier batches are in; 20 texts with B = 18 give batches of 18 and 2
C6_Batches ==
    /\ (IsOpenAI(backend) /\ pc # "call" /\ (impl = "worker" \/ given # <<>>)) =>
         LET N == Len(texts)
             B == batch_size
             NB == (N + B - 1) \div B
         IN /\ N = Len(given)
            /\ pc \in {"send", "fallback", "pace"} =>
                 /\ 1 <= bi /\ bi <= NB
                 /\ chunk = SubSeq(texts, (bi - 1) * B + 1, Min(bi * B, N))
                 /\ 1 <= Len(chunk) /\ Len(chunk) <= B
            /\ pc = "send" => Len(translated_texts) = (bi - 1) * B
            /\ pc = "loop" =>
                 /\ bi <= NB + 1
                 /\ Len(translated_texts) = Min((bi - 1) * B, N)
            /\ pc = "done" => bi = NB + 1 /\ Len(translated_texts) = N
    /\ LET starts == BatchStarts(TwentyTexts, 18)
       IN [b \in 1..Len(starts) |-> Len(Chunk(TwentyTexts, starts[b], 18))] = <<18, 2>>

C6_Witness ==
    /\ impl = "app" /\ pc = "send" /\ bi = 2 /\ Len(texts) = 3 /\ batch_size = 2
    /\ Len(chunk) = 1 /\ Len(translated_texts) = 2

\* the last response carried an HTTP status (the request did not raise)
Answered == last_r.status > 0
\* translate_openai_batch has stopped asking: it is returning the tagged segments
Aborted ==
    /\ ReturnState
    /\ Len(chunk_results) = Len(chunk)
    /\ \A i \in 1..Len(chunk) :
         /\ StartsWith(chunk_results[i], FailPrefix)
         /\ SubSeq(chunk_results[i], Len(chunk_results[i]) - Len(chunk[i]) + 1,
                   Len(chunk_results[i])) = chunk[i]

\* C18 as stated: after an answer whose status is neither 2xx nor 429 no further request
\* is sent for the batch and nothing is slept: the tagged result is returned at once
C18_AsStated ==
    (Answered /\ last_r.status \notin 200..299 /\ last_r.status # 429) =>
      /\ Aborted
      /\ sleep_s = 0

\* the part of C18 the code keeps: statuses from 400 on
C18_From400 ==
    (Answered /\ last_r.status >= 400 /\ last_r.status # 429) =>
      /\ Aborted
      /\ sleep_s = 0

\* C19 as stated: after a 429 answer whose body says insufficient_quota, in either copy,
\* nothing is slept, no further request is sent and the tagged result is returned
C19_AsStated ==
    (last_r.status = 429 /\ last_r.quota) =>
      /\ Aborted
      /\ sleep_s = 0

\* the part of C19 the code keeps: the app's copy
C19_AppOnly ==
    (impl = "app" /\ last_r.status = 429 /\ last_r.quota) =>
      /\ Aborted
      /\ sleep_s = 0 /\ last_err = <<"insufficient_quota">>

\* a 429 answer that is handled as a throttle
Transient429 == last_r.status = 429 /\ ~(impl = "app" /\ last_r.quota)
\* the value of "attempt" in the iteration that got the last answer
LastAttempt == nreq - 1
\* the backoff 2^attempt + jitter with jitter in [0, 1.5), in tenths, capped at cap
IsBackoff(s, cap) == \E j \in 0..14 : s = Min(cap, 10 * (2 ^ LastAttempt) + j)

\* C20 as stated: after a transient 429 the sleep is the Retry-After value when that is
\* a number, and otherwise 2^attempt + jitter capped at 45 s (30 s in the worker)
C20_AsStated ==
    (Transient429 /\ ~last_r.quota) =>
      IF last_r.retry_after = "2" THEN sleep_s = 20
      ELSE IF last_r.retry_after = "60" THEN sleep_s = 600
      ELSE IF last_r.retry_after = "SUPERSCRIPT TWO" THEN TRUE
      ELSE IsBackoff(sleep_s, IF impl = "app" THEN 450 ELSE 300)

\* C20 amended: after a transient 429 the sleep is min(cap, Retry-After) when the header
\* is a decimal number, min(10, 1.5 + attempt) when the header is a digit character that
\* int() rejects, and min(cap, 2^attempt + jitter) otherwise; cap is 45 s in the app and
\* 30 s in the worker; the sleep is taken after the last attempt too
C20_Sleep ==
    Transient429 =>
      /\ pc = "send" \/ (ReturnState /\ nreq = max_retries)
      /\ pc = "send" => attempt = nreq
      /\ \A cap \in {IF impl = "app" THEN 450 ELSE 300} :
           IF last_r.retry_after = "2" THEN sleep_s = 20
           ELSE IF last_r.retry_after = "60" THEN sleep_s = cap
           ELSE IF last_r.retry_after = "SUPERSCRIPT TWO"
           THEN sleep_s = Min(100, 15 + 10 * LastAttempt)
           ELSE IsBackoff(sleep_s, cap)

C20_Witness ==
    /\ impl = "worker" /\ pc = "send" /\ attempt = 2
    /\ last_r.status = 429 /\ last_r.retry_after = "60" /\ sleep_s = 300

\* the last attempt ended in an except clause: the request raised, or the payload of a
\* 2xx answer could not be used
ParseOrTransportFailure ==
    /\ last_r.status \in {0} \cup 200..299
    /\ last_err # None
\* the attempt loop goes on while attempts remain, and no list of another length than the
\* batch is ever returned
RetriedWhileLeft ==
    /\ ParseOrTransportFailure =>
         IF nreq < max_retries THEN pc = "send" /\ attempt = nreq
         ELSE Aborted
    /\ ReturnState => Len(chunk_results) = Len(chunk)
    /\ (ReturnState /\ last_err = None) => Len(resp) = Len(chunk)

\* the first value of min(10, 1.5 + attempt), in tenths
FirstShortDelay == 15

\* C21 as stated: an unusable 2xx payload or a raised request does not end the batch; the
\* same short delay is slept on every attempt and the request is repeated while attempts
\* remain; a list of the wrong length is never returned
C21_AsStated ==
    /\ RetriedWhileLeft
    /\ ParseOrTransportFailure => sleep_s = FirstShortDelay

\* the part of C21 the code keeps: the retry and the lengths, with the delay the code
\* sleeps, min(10, 1.5 + attempt) seconds
C21_GrowingDelay ==
    /\ RetriedWhileLeft
    /\ ParseOrTransportFailure => sleep_s = Min(100, 15 + 10 * LastAttempt)

\* the backoff sleep of lines 171-180 has been taken for the last answer
SleptForBackoff ==
    /\ Transient429 /\ last_r.retry_after # "SUPERSCRIPT TWO"
    /\ sleep_s > 0

\* C22 as stated: a sleep taken after a transient 429 is always followed by another
\* request for the same batch, never by giving up
C22_AsStated == SleptForBackoff => (pc = "send" /\ ~ReturnState)

\* the part of C22 the code keeps: the sleep is followed by a request except after the
\* last attempt, where the sleep is taken all the same and the failure fallback follows
C22_ExceptLast ==
    SleptForBackoff =>
      IF nreq < max_retries THEN pc = "send" /\ attempt = nreq /\ ~ReturnState
      ELSE Aborted

\* the step passes from one batch to the next one: the loop variable advances and a
\* further batch is left
ToNextBatch ==
    /\ bi >= 1 /\ bi' = bi + 1
    /\ bi' <= Len(BatchStarts(texts, batch_size))
\* the step ends the pause of line 280
OutOfPause == pc = "pace" /\ sleep_s = PacingDelay /\ pc' = "loop"

\* C23 as stated: in both orchestrators the passage from a batch to the next is the end of
\* the fixed pause, whatever the outcome of the earlier batch
C23_AsStated == [][ToNextBatch => OutOfPause]_vars

\* the part of C23 the code keeps: translate_batch (app) pauses 0.5 s after every batch,
\* once, after the last per-item check and before the next batch is taken
C23_AppPause ==
    [][impl = "app" =>
         /\ ToNextBatch => OutOfPause
         /\ (pc = "fallback" /\ pc' # "fallback") => (pc' = "pace" /\ sleep_s' = PacingDelay)
         /\ (pc # "pace" /\ pc' = "loop") => bi' = 1]_vars

-----------------------------------------------------------------------------
(* Properties of the OCR post-processing, checked under SpecOcr *)

\* how often x occurs in s
Count(s, x) == Cardinality({i \in 1..Len(s) : s[i] = x})

\* the doubled centre of a region
Cx2(r) == rect_center(box_to_rect(r.box))[1]
Cy2(r) == rect_center(box_to_rect(r.box))[2]

\* the doubled y_span of the input
Span2 ==
    LET S == {Cy2(regions[i]) : i \in 1..Len(regions)}
    IN IF S = {} THEN 0
       ELSE (CHOOSE a \in S : \A b \in S : b <= a) - (CHOOSE a \in S : \A b \in S : a <= b)

\* floor(center_y / max(12, y_span / 20)) of a region, in whole numbers, for the doubled
\* y_span sp
KeyFor(r, sp) == IF sp <= 480 THEN Cy2(r) \div 24 ELSE (20 * Cy2(r)) \div sp
Key(r) == KeyFor(r, Span2)

\* C7: the output of sort_reading_order holds every input region as often as the input
\* does and nothing else, every region unchanged; empty gives empty, a single region is
\* returned as it is
C7_Permutation ==
    "sort" \in opc =>
      /\ Len(ordered) = Len(regions)
      /\ \A i \in 1..Len(regions) :
           /\ Count(ordered, regions[i]) = Count(regions, regions[i])
           /\ \E j \in 1..Len(regions) : ordered[i] = regions[j]
      /\ regions = <<>> => ordered = <<>>
      /\ Len(regions) = 1 => ordered = regions

C7_Witness ==
    /\ "sort" \in opc /\ Len(regions) = 3 /\ ordered # regions
    /\ regions[1] = regions[3] /\ regions[1] # regions[2]

\* C8: sorting the output of sort_reading_order again gives the same order
C8_Idempotent == "resort" \in opc => reordered = ordered

C8_Witness ==
    /\ "resort" \in opc /\ Len(regions) = 3 /\ ordered # regions
    /\ \E i, j \in 1..3 :
         /\ i < j /\ ordered[i] # ordered[j]
         /\ Key(ordered[i]) = Key(ordered[j]) /\ Cx2(ordered[i]) = Cx2(ordered[j])

\* C9: the output is in ascending bucket key, inside a bucket in non-decreasing center_x,
\* and regions with the same key and center_x are in their input order
C9_ReadingOrder ==
    "sort" \in opc =>
      LET sp == Span2
          ko == [i \in 1..Len(ordered) |-> KeyFor(ordered[i], sp)]
          xo == [i \in 1..Len(ordered) |-> Cx2(ordered[i])]
      IN /\ \A i, j \in 1..Len(ordered) :
              i < j => ko[i] <= ko[j] /\ (ko[i] = ko[j] => xo[i] <= xo[j])
         /\ \A i \in 1..Len(regions) :
              LET ki == KeyFor(regions[i], sp)
                  xi == Cx2(regions[i])
                  Same(r) == KeyFor(r, sp) = ki /\ Cx2(r) = xi
              IN SelectSeq(ordered, Same) = SelectSeq(regions, Same)

C9_Witness ==
    /\ "sort" \in opc /\ Span2 > 480 /\ Len(regions) = 3 /\ ordered # regions
    /\ \E i, j \in 1..3 :
         /\ i < j /\ regions[i] # regions[j]
         /\ Key(regions[i]) = Key(regions[j]) /\ Cx2(regions[i]) = Cx2(regions[j])
         /\ Cy2(regions[i]) \div 24 # Cy2(regions[j]) \div 24

\* rectangle a contains rectangle b
Contains(a, b) == a[1] <= b[1] /\ a[2] <= b[2] /\ a[3] >= b[3] /\ a[4] >= b[4]

\* C10: merge_nearby_boxes returns at most as many regions as it was given, every input
\* region went into exactly one output region, and the rectangle of an output region
\* contains the rectangle of every input region that went into it
C10_Contains ==
    "merge" \in opc =>
      LET groups == MergeGroups(regions, threshold)
      IN /\ Len(merged) <= Len(regions)
         /\ Len(groups) = Len(merged)
         /\ \A i \in 1..Len(regions) :
              Cardinality({<<g, m>> \in (1..Len(groups)) \X (1..Len(regions)) :
                             m <= Len(groups[g]) /\ groups[g][m] = i}) = 1
         /\ \A g \in 1..Len(groups) : \A m \in 1..Len(groups[g]) :
              Contains(box_to_rect(merged[g].box), box_to_rect(regions[groups[g][m]].box))

C10_Witness ==
    /\ "merge" \in opc /\ Len(regions) = 3 /\ Len(merged) = 2
    /\ \E g \in 1..2 : \A i \in 1..3 :
         box_to_rect(merged[g].box) # box_to_rect(regions[i].box)

-----------------------------------------------------------------------------
(* Grouping and fusing in merge_nearby_boxes, checked under SpecOcr *)

\* input regions i and j satisfy the merge predicate for the threshold
NearPos(i, j) ==
    /\ Abs(Cy2(regions[i]) - Cy2(regions[j])) < threshold
    /\ Abs(Cx2(regions[i]) - Cx2(regions[j])) < 4 * threshold

\* position j starts a group: no earlier anchor is near it
RECURSIVE IsAnchor(_)
IsAnchor(j) == \A i \in 1..(j - 1) : ~(IsAnchor(i) /\ NearPos(i, j))

\* the positions that join anchor i: later, near i, and near no earlier anchor
Joiners(i) ==
    {j \in (i + 1)..Len(regions) :
        /\ NearPos(i, j)
        /\ \A h \in 1..(i - 1) : ~(IsAnchor(h) /\ NearPos(h, j))}

\* the group of anchor i, in input order
GroupOf(i) == <<i>> \o SortedKeys(Joiners(i))

\* the anchors in input order
AnchorSeq == SelectSeq([i \in 1..Len(regions) |-> i], IsAnchor)

\* C11: the groups are those of one forward scan by anchor: a position is an anchor
\* exactly when no earlier anchor claimed it, position j joins anchor i exactly when it
\* is unclaimed and satisfies the predicate against i itself, no position is in two
\* groups, and a region near a member but not near the anchor stays out of the group
C11_AnchorScan ==
    "merge" \in opc =>
      LET groups == [g \in 1..Len(AnchorSeq) |-> GroupOf(AnchorSeq[g])]
      IN /\ Len(merged) = Len(groups)
         /\ \A g \in 1..Len(groups) :
              merged[g].text = Join([m \in 1..Len(groups[g]) |-> regions[groups[g][m]].text])
         /\ \A g \in 1..Len(groups) : \A m \in 2..Len(groups[g]) :
              /\ ~IsAnchor(groups[g][m])
              /\ NearPos(groups[g][1], groups[g][m])
              /\ \A h \in 1..Len(groups) :
                   h # g => \A n \in 1..Len(groups[h]) : groups[h][n] # groups[g][m]
         /\ \A a, b, c \in 1..Len(regions) :
              (a < b /\ b < c /\ IsAnchor(a) /\ NearPos(a, b) /\ NearPos(b, c)
                 /\ ~NearPos(a, c)) =>
                \A g \in 1..Len(groups) :
                   groups[g][1] = a => \A m \in 1..Len(groups[g]) : groups[g][m] # c

C11_Witness ==
    /\ "merge" \in opc /\ threshold = 50 /\ Len(regions) = 3
    /\ NearPos(1, 2) /\ NearPos(2, 3) /\ ~NearPos(1, 3)
    /\ Len(merged) = 2 /\ merged[2] = regions[3]

\* the groups of the scan, as sequences of input positions
ScanGroups == [g \in 1..Len(AnchorSeq) |-> GroupOf(AnchorSeq[g])]

\* the union rectangle <<x1, y1, x2, y2>> of the input regions at the positions grp
UnionRect(grp) ==
    LET r == [m \in 1..Len(grp) |-> box_to_rect(regions[grp[m]].box)]
        lo(c) == CHOOSE v \in {r[m][c] : m \in 1..Len(grp)} :
                   \A m \in 1..Len(grp) : v <= r[m][c]
        hi(c) == CHOOSE v \in {r[m][c] : m \in 1..Len(grp)} :
                   \A m \in 1..Len(grp) : v >= r[m][c]
    IN <<lo(1), lo(2), hi(3), hi(4)>>

\* the positions g of regions fused from two or more inputs
FusedPositions ==
    {g \in 1..Len(ScanGroups) : Len(ScanGroups[g]) >= 2 /\ g <= Len(merged)}

\* C12 as stated: the box of a merged region with union rectangle (x1,y1,x2,y2) is
\* [[x1,y1],[x2,y1],[x2,y2],[x1,y1]]
C12_AsStated ==
    "merge" \in opc =>
      \A g \in FusedPositions :
        LET u == UnionRect(ScanGroups[g])
        IN merged[g].box =
             <<(<<u[1], u[2]>>), (<<u[3], u[2]>>), (<<u[3], u[4]>>), (<<u[1], u[2]>>)>>

\* C12 amended: the box of a merged region with union rectangle (x1,y1,x2,y2) is the
\* axis-aligned quadrilateral [[x1,y1],[x2,y1],[x2,y2],[x1,y2]]
C12_Quad ==
    "merge" \in opc =>
      \A g \in FusedPositions :
        LET u == UnionRect(ScanGroups[g])
        IN merged[g].box =
             <<(<<u[1], u[2]>>), (<<u[3], u[2]>>), (<<u[3], u[4]>>), (<<u[1], u[4]>>)>>

C12_Witness ==
    /\ "merge" \in opc /\ Len(regions) = 3 /\ Len(merged) = 1
    /\ regions[1] # regions[2] /\ regions[2] # regions[3] /\ regions[1] # regions[3]
    /\ merged[1].box[1] # merged[1].box[4]
    /\ \A i \in 1..3 : box_to_rect(merged[1].box) # box_to_rect(regions[i].box)

\* the sum of the confidences (hundredths) of the input regions at the positions grp
RECURSIVE ConfSum(_)
ConfSum(grp) == IF grp = <<>> THEN 0 ELSE regions[grp[1]].conf[1] + ConfSum(Tail(grp))

\* the texts at the positions grp, the first as it is, each further one behind a space
RECURSIVE Spaced(_)
Spaced(grp) ==
    IF Len(grp) = 1 THEN regions[grp[1]].text
    ELSE Spaced(SubSeq(grp, 1, Len(grp) - 1)) \o <<SP>> \o regions[grp[Len(grp)]].text

\* C13: the text of a merged region is its members' texts in input order, anchor first,
\* separated by single spaces; its confidence is the mean of the members' confidences;
\* "Hello" at (100,50) and "World" at (140,52) merge into "Hello World" with threshold 50
C13_TextAndConf ==
    /\ "merge" \in opc =>
         \A g \in FusedPositions :
             /\ merged[g].text = Spaced(ScanGroups[g])
             /\ merged[g].conf[2] > 0
             /\ merged[g].conf[1] * Len(ScanGroups[g])
                  = ConfSum(ScanGroups[g]) * merged[g].conf[2]
    /\ LET hello == CHOOSE r \in RegionCatalogue : r.text = <<"Hello">>
           world == CHOOSE r \in RegionCatalogue : r.text = <<"World">>
           out == merge_nearby_boxes(<<hello, world>>, 50)
       IN /\ rect_center(box_to_rect(hello.box)) = <<200, 100>>
          /\ rect_center(box_to_rect(world.box)) = <<280, 104>>
          /\ Len(out) = 1
          /\ out[1].text = <<"Hello", SP, "World">>

C13_Witness ==
    /\ "merge" \in opc /\ threshold = 50 /\ Len(regions) = 3 /\ Len(merged) = 1
    /\ regions[1].text = <<"Hello">> /\ regions[2].text = <<"World">> /\ regions[3].text = <<"Tie">>
    /\ merged[1].text = <<"Hello", SP, "World", SP, "Tie">>
    /\ merged[1].conf = <<240, 3>>

-----------------------------------------------------------------------------
(* Language lists, checked under SpecLang *)

\* the list [tag, en]
WithEnglish(t) == <<(<<t>>), (<<"en">>)>>

\* C14: ch_sim, ch_tra, ja, ko, ar, fr, es, de, ru, pt, it, tr each give [tag, en] and the
\* empty tag gives [en]; whatever the input, a result with ch_sim or ch_tra in it is
\* exactly that tag and en, and no result holds a tag twice
C14_LangTable ==
    lpc = "done" =>
      /\ \A t \in {"ch_sim", "ch_tra", "ja", "ko", "ar", "fr", "es", "de", "ru", "pt", "it", "tr"} :
           primary = <<t>> => langs = WithEnglish(t)
      /\ primary = EmptyStr => langs = <<(<<"en">>)>>
      /\ \A i \in 1..Len(langs) :
           langs[i] \in {<<"ch_sim">>, <<"ch_tra">>} => langs = <<langs[i], (<<"en">>)>>
      /\ \A i, j \in 1..Len(langs) : i # j => langs[i] # langs[j]

C14_Witness ==
    /\ lpc = "done" /\ primary = <<SP, "zh_tra", SP>> /\ langs = WithEnglish("ch_tra")

\* the tag of an input: without surrounding blanks, in lower case
Canon(p) == Lower(Strip(OrEmpty(p)))

\* the tags that safe_easyocr_lang_list knows
RecognizedTags ==
    {<<"ch_sim">>, <<"ch_tra">>, <<"zh_sim">>, <<"zh_tra">>, <<"ja">>, <<"ko">>, <<"ar">>,
     <<"fr">>, <<"es">>, <<"de">>, <<"ru">>, <<"pt">>, <<"it">>, <<"tr">>}

\* C15 as stated: an input whose tag is not a recognized one, or is empty, gives [en]
C15_AsStated ==
    (lpc = "done" /\ Canon(primary) \notin RecognizedTags) => langs = <<(<<"en">>)>>

-----------------------------------------------------------------------------
(* run_ocr_auto, checked under SpecAuto *)

\* a detection has text
HasText(d) == d.text # None /\ \E c \in 1..Len(d.text) : d.text[c] # SP

\* the number of detections with text
TextCount(raw) == Cardinality({i \in 1..Len(raw) : HasText(raw[i])})

\* cleaned count times mean confidence = the sum of the confidences of the detections
\* with text (hundredths)
RECURSIVE ScoreOf(_)
ScoreOf(raw) ==
    IF raw = <<>> THEN 0
    ELSE (IF HasText(raw[1]) THEN raw[1].conf ELSE 0) + ScoreOf(Tail(raw))

\* the score of every call so far, -1 for a call that raised
CallScores == [i \in 1..Len(calls) |-> IF calls[i].raised THEN -1 ELSE ScoreOf(calls[i].raw)]

\* the call that holds the running best after n calls with scores sc: the first with the
\* highest score, 0 while no call has scored above 0
BestIdx(sc, n) ==
    LET R == {i \in 1..n : sc[i] > 0}
    IN IF R = {} THEN 0
       ELSE CHOOSE i \in R : \A j \in R : sc[j] <= sc[i] /\ (sc[j] = sc[i] => i <= j)

\* the candidates are tried in the order of the list, each with its own language list,
\* and a candidate whose call raised is followed by the next one
InOrder ==
    /\ Len(calls) <= 7
    /\ \A i \in 1..Len(calls) :
         calls[i].lang = <<(<<"ja", "ch_sim", "ko", "en", "ar", "fr", "ch_tra">>)[i]>>
    /\ (apc \in {"return", "done"} /\ calls # <<>> /\ calls[Len(calls)].raised) =>
         Len(calls) = 7

\* the returned pair is the tag and the uncleaned list of a call that returned, and no
\* call scored higher
FromACall(sc) ==
    \E i \in 1..Len(calls) :
       /\ ~calls[i].raised
       /\ auto_out = <<calls[i].lang, calls[i].raw>>
       /\ \A j \in 1..Len(calls) : sc[j] <= sc[i]

\* C16 as stated: fixed order, a raising candidate is skipped, the result is a tried
\* candidate's tag with its own uncleaned list and no tried candidate scored higher;
\* ("en", []) if every candidate raised
C16_AsStated ==
    /\ InOrder
    /\ apc = "done" =>
         IF \A i \in 1..Len(calls) : calls[i].raised
         THEN auto_out = <<(<<"en">>), <<>>>>
         ELSE \A sc \in {CallScores} : FromACall(sc)

\* C16 amended: as C16_AsStated when some candidate scored above 0, and then the result
\* is the first candidate with the highest score; ("en", []) if every candidate raised
\* or none scored above 0
C16_BestOrDefault ==
    /\ InOrder
    /\ apc = "done" =>
         \A sc \in {CallScores} : \A b \in {BestIdx(sc, Len(calls))} :
            IF b = 0
            THEN auto_out = <<(<<"en">>), <<>>>>
            ELSE FromACall(sc) /\ auto_out = <<calls[b].lang, calls[b].raw>>

C16_Witness ==
    /\ apc = "done" /\ Len(calls) = 7
    /\ calls[1].raised /\ calls[2].raw = Dets(2, <<SP>>, 90)
    /\ calls[3].raw = Dets(7, <<"t">>, 90) /\ calls[5].raw = Dets(8, <<"t">>, 50)
    /\ Len(calls[6].raw) = 9 /\ calls[7].raised
    /\ auto_out = <<(<<"ko">>), Dets(7, <<"t">>, 90)>>

\* the running best after n calls with scores sc has score >= 6.0 and at least 8
\* detections with text
StrongAfter(sc, n) ==
    \E b \in {BestIdx(sc, n)} : b # 0 /\ sc[b] >= 600 /\ TextCount(calls[b].raw) >= 8

\* C17: no OCR call is made once the running best has score >= 6.0 and 8 or more
\* cleaned detections, and until then the next candidate is always tried: the loop ends
\* only on that condition or after the last candidate
C17_EarlyExit ==
    \A sc \in {CallScores} :
       /\ \A n \in 1..(Len(calls) - 1) : ~StrongAfter(sc, n)
       /\ apc = "probe" => /\ ~StrongAfter(sc, Len(calls))
                           /\ Len(calls) < 7 /\ cpos = Len(calls) + 1
       /\ apc \in {"return", "done"} => (StrongAfter(sc, Len(calls)) \/ Len(calls) = 7)

C17_Witness ==
    /\ apc = "done" /\ Len(calls) = 3 /\ StrongAfter(CallScores, 3)
    /\ calls[1].raised /\ calls[2].raw = Dets(8, <<"t">>, 50)
    /\ Len(auto_out[2]) = 9 /\ auto_out[1] = <<"ko">>

-----------------------------------------------------------------------------
(* Properties of the pipeline, checked under SpecPipe *)

\* the stages in the order of the data flow
StageOrder == <<"filter", "merge", "sort", "index", "translate">>
StagePos(n) == CHOOSE p \in 1..Len(StageOrder) : StageOrder[p] = n

\* the stages ran in that order, each once, and none but the optional merge was skipped
RanInOrder ==
    /\ \A a \in 1..Len(stages) : \E p \in 1..Len(StageOrder) : StageOrder[p] = stages[a]
    /\ \A a, b \in 1..Len(stages) : a < b => StagePos(stages[a]) < StagePos(stages[b])
    /\ \A a \in 1..Len(stages) : \A p \in 1..(StagePos(stages[a]) - 1) :
         (StageOrder[p] = "merge" /\ ~merge_lines)
           \/ \E b \in 1..(a - 1) : stages[b] = StageOrder[p]
    /\ ~merge_lines => \A a \in 1..Len(stages) : stages[a] # "merge"

\* the doubled y_span of a list
SpanOf(its) ==
    LET S == {Cy2(its[i]) : i \in 1..Len(its)}
    IN IF S = {} THEN 0
       ELSE (CHOOSE a \in S : \A b \in S : b <= a) - (CHOOSE a \in S : \A b \in S : a <= b)

\* a list is in reading order: rows top to bottom, inside a row left to right
InReadingOrder(its) ==
    \A sp \in {SpanOf(its)} : \A i, j \in 1..Len(its) :
       i < j => /\ KeyFor(its[i], sp) <= KeyFor(its[j], sp)
                /\ KeyFor(its[i], sp) = KeyFor(its[j], sp) => Cx2(its[i]) <= Cx2(its[j])

\* every kept region passed the filter or was merged from regions that did
PassedFilter(its) ==
    \A i \in 1..Len(its) :
       /\ its[i].text # EmptyStr /\ its[i].text[1] # SP /\ its[i].text[Len(its[i].text)] # SP
       /\ its[i].conf[1] >= min_conf * its[i].conf[2]

\* the list the translation works on is the indexed list, region by region
SameRegions(a, b) ==
    /\ Len(a) = Len(b)
    /\ \A i \in 1..Len(a) :
         a[i].index = b[i].index /\ a[i].box = b[i].box /\ a[i].conf = b[i].conf

C24_State ==
    /\ RanInOrder
    /\ stages # <<>> => PassedFilter(pitems)
    /\ (stages # <<>> /\ stages[Len(stages)] = "sort") => InReadingOrder(pitems)
    /\ (\E a \in 1..Len(stages) : stages[a] = "index") =>
         /\ InReadingOrder(pitems)
         /\ \A i \in 1..Len(pitems) : pitems[i].index = i
    /\ pc # "idle" =>
         /\ SameRegions(items, pitems)
         /\ \A i \in 1..Len(items) : items[i].text = pitems[i].text
    /\ ppc = "done" /\ pc = "done" =>
         \A i \in 1..Len(pitems) : impl = "app" => pitems[i].translation # None

\* once indexed, no step changes the length of the list, an item's index or its region
C24_Kept ==
    (\E a \in 1..Len(stages) : stages[a] = "index") =>
      /\ SameRegions(pitems', pitems)
      /\ \A i \in 1..Len(pitems) : pitems'[i].text = pitems[i].text
      /\ pc # "idle" => SameRegions(items', items)

\* C24: the stages run in the order filter, merge (if requested), sort, index, translate;
\* after indexing the regions carry the indices 1..n in reading order, index k on the k-th
\* region; the translation changes neither an index nor the order of the list
C24_Pipeline == [](C24_State) /\ [][C24_Kept]_vars

C24_Witness ==
    /\ ppc = "done" /\ pc = "done" /\ impl = "app" /\ IsOpenAI(backend)
    /\ stages = StageOrder
    /\ raw_results = <<DetEnd, DetWorld, DetHello>> /\ min_conf = 35
    /\ Len(pitems) = 2
    /\ pitems[1].index = 1 /\ pitems[1].text = <<"World", SP, "Hello">>
    /\ pitems[2].index = 2 /\ pitems[2].text = <<"End">>
    /\ pitems[1].translation = <<"x">>

-----------------------------------------------------------------------------
(* Properties of daytona_runner, checked under SpecDaytona *)

\* the last call was reset_sandbox
AfterReset == recent # <<>> /\ recent[Len(recent)].call = "reset_sandbox"
\* the last call was run_in_daytona and the call before it reset_sandbox
ResetThenRun ==
    /\ Len(recent) = 2
    /\ recent[1].call = "reset_sandbox" /\ recent[2].call = "run_in_daytona"
\* in the operations o the worker command at position i runs in a sandbox that was
\* created earlier in o and in which the three install commands then went through
Prepared(o, i) ==
    \E c, a1, a2, a3 \in 1..(i - 1) :
       /\ c < a1 /\ a1 < a2 /\ a2 < a3
       /\ o[c].op = "create" /\ o[c].ok /\ o[c].sb = o[i].sb /\ o[c].sb # 0
       /\ o[a1].op = InstallCmds[1] /\ o[a2].op = InstallCmds[2] /\ o[a3].op = InstallCmds[3]
       /\ \A a \in {a1, a2, a3} : o[a].ok /\ o[a].sb = o[i].sb

\* C25: after reset_sandbox, whether the delete went through, failed or was not needed,
\* no sandbox is held and the flag is clear; a run_in_daytona that follows creates a
\* sandbox first and runs the worker command only in that new sandbox, after the three
\* install commands went through in it
C25_FreshAfterReset ==
    /\ AfterReset => (_sandbox = 0 /\ ~_sandbox_ready /\ ~recent[Len(recent)].raised)
    /\ ResetThenRun =>
         \A o \in {recent[2].ops} :
            /\ o # <<>> /\ o[1].op \in {"Daytona()", "create"}
            /\ \A i \in 1..Len(o) :
                 /\ o[i].op = "create" => (i <= 2 /\ (o[i].ok => o[i].sb = next_id))
                 /\ o[i].op = "exec python sandbox_worker.py" =>
                      (Prepared(o, i) /\ o[i].sb = _sandbox /\ _sandbox_ready)

C25_Witness ==
    /\ ResetThenRun
    /\ recent[1].ops = <<[op |-> "delete", sb |-> 1, ok |-> FALSE]>>
    /\ ~recent[2].raised /\ _sandbox = 2 /\ _sandbox_ready

\* C26: the flag is set only while a sandbox is held, the installation went through in
\* that sandbox, the sandbox held is the last one created, and between two resets (and
\* before the first) at most one sandbox is created
C26_OneSandbox ==
    /\ _sandbox_ready => (_sandbox # 0 /\ _sandbox \in installed)
    /\ made <= 1
    /\ _sandbox # 0 => (made = 1 /\ _sandbox = next_id /\ _daytona_client)
    /\ _sandbox = 0 => made = 0
    /\ installed \subseteq 1..next_id

C26_Witness ==
    /\ _sandbox_ready /\ _sandbox = 2 /\ installed = {2} /\ next_id = 2
    /\ recent[2].call = "ensure_sandbox_deps" /\ recent[1].call = "get_or_create_sandbox"

====
